---- MODULE Spec2Model ----
(***************************************************************************)
(* Meal Prep Calculator: the frontend's session-held meal draft            *)
(* (src/frontend/app.py) and the backend's Meal Store (src/backend/app.py, *)
(* src/backend/models.py) as one state machine.                            *)
(*                                                                         *)
(* Numbers.  A per-100g nutrient value or a rounded nutrient value is held *)
(* in hundredths (3100 is the float nearest to 31.00, 357 the float        *)
(* nearest to 3.57) and grams are whole grams.  The aggregator's running   *)
(* totals are Python floats, computed bit for bit (see RoundToFloat).      *)
(*                                                                         *)
(* Optional values.  A form field or JSON key that may be missing is a     *)
(* sequence of length at most one: <<>> is "missing" (Python None),        *)
(* <<v>> is the value v.                                                   *)
(***************************************************************************)
EXTENDS Integers, Sequences, FiniteSets, TLC

VARIABLES
    session,     \* the Flask session cookie: <<>> or <<current_meal>>
    page,        \* the frontend's last response to the browser
    fpc,         \* frontend save_meal: "idle", or "posting" while requests.post runs
    meals,       \* committed rows of table meals
    ingredients, \* committed rows of table ingredients
    nextMealId,  \* last value of the meals id sequence
    nextIngId,   \* last value of the ingredients id sequence
    req,         \* backend requests in flight, one per worker
    given,       \* history: meal id -> the JSON body its committed create was given
    aborted,     \* history: meal ids whose create was rolled back
    adds         \* /add-ingredient requests the browser has sent without waiting

vars == <<session, page, fpc, meals, ingredients, nextMealId, nextIngId, req,
          given, aborted, adds>>

frontVars == <<session, page, fpc, adds>>
storeVars == <<meals, ingredients, nextMealId, nextIngId, given, aborted>>

(***************************************************************************)
(* Bounds of the model.                                                    *)
(***************************************************************************)
\* longest ingredient list a draft is grown to
MaxIngredients == 2
\* values the meals id sequence may take: creates that reach the first flush
MaxMeals == 2

\* meals the browser session posts to the backend
MaxSaves == 1

\* longest ingredient list posted to /api/calculate
MaxCalcIngredients == 3

\* most foods the catalog returns for one search
MaxFoods == 11

\* the nutrient objects of a food of the catalog
MaxNutrients == 2

\* backend workers handling requests concurrently
Workers == {"w1", "w2"}

None == <<>>
Some(v) == <<v>>
\* dict.get(key, default): the default only when the key is missing
GetOr(o, default) == IF o = <<>> THEN default ELSE o[1]

(***************************************************************************)
(* Form data.  A form field is text; int() and float() parse it.           *)
(***************************************************************************)
\* int(text), src/frontend/app.py:241,318: <<>> where Python raises ValueError
IntOf(text) ==
    CASE text = "0" -> <<0>>
      [] text = "1" -> <<1>>
      [] text = "2" -> <<2>>
      [] text = "171477" -> <<171477>>
      [] text = "168878" -> <<168878>>
      [] OTHER -> <<>>

\* float(text) of a nutrient field, in hundredths, src/frontend/app.py:246-249
FloatOf(text) ==
    CASE text = "0" -> <<0>>
      [] text = "31" -> <<3100>>
      [] text = "3.57" -> <<357>>
      [] text = "165" -> <<16500>>
      [] text = "2.7" -> <<270>>
      [] text = "0.3" -> <<30>>
      [] text = "28" -> <<2800>>
      [] text = "130" -> <<13000>>
      [] OTHER -> <<>>

\* float(text) of the grams field, in whole grams, src/frontend/app.py:244
GramsOf(text) ==
    CASE text = "0" -> <<0>>
      [] text = "100" -> <<100>>
      [] text = "150" -> <<150>>
      [] text = "200" -> <<200>>
      [] OTHER -> <<>>

\* the forms the browser posts to /add-ingredient
ChickenForm ==
    [fdcId |-> Some("171477"), description |-> "Chicken breast", brandName |-> None,
     grams |-> Some("200"), protein |-> Some("31"), fat |-> Some("3.57"),
     carbs |-> Some("0"), calories |-> Some("165")]
\* the grams field left out: 100 by default
RiceForm ==
    [fdcId |-> Some("168878"), description |-> "Rice", brandName |-> Some("Acme"),
     grams |-> None, protein |-> Some("2.7"), fat |-> Some("0.3"),
     carbs |-> Some("28"), calories |-> Some("130")]
\* no fdcId field: int(None) raises TypeError
NoIdForm == [RiceForm EXCEPT !.fdcId = None]
\* a grams field float() cannot parse: ValueError
BadGramsForm == [RiceForm EXCEPT !.grams = Some("a lot")]

\* an amount of 0 grams
ZeroGramsForm == [ChickenForm EXCEPT !.grams = Some("0")]

\* the forms the browser posts to /add-ingredient
AddForms == {ChickenForm, RiceForm, NoIdForm, BadGramsForm}

\* the forms whose amount is not positive
ZeroForms == {ZeroGramsForm}

\* the forms the browser posts to /update-meal-info
UpdateForms ==
    { [name |-> Some("Lunch"), servings |-> Some("2")],
      [name |-> None, servings |-> None],
      [name |-> Some("Lunch"), servings |-> Some("0")],
      [name |-> Some("Lunch"), servings |-> Some("two")] }

(***************************************************************************)
(* The draft in the session.                                               *)
(***************************************************************************)
DefaultMeal == [name |-> "My Meal", servings |-> 1, ingredients |-> <<>>]

\* session.get('current_meal', {...})
CurrentMeal(s) == IF s = <<>> THEN DefaultMeal ELSE s[1]

\* list.pop(index) for 0 <= index < len(list); index counts from 0
Pop(list, index) ==
    [k \in 1..(Len(list) - 1) |-> IF k <= index THEN list[k] ELSE list[k + 1]]

ZeroNutrients == [protein |-> 0, fat |-> 0, carbs |-> 0, calories |-> 0]

(***************************************************************************)
(* Natural numbers of any size (BigNat): the sequence of their digits in   *)
(* base 2^15, lowest digit first, <<>> for 0.  They carry the 53-bit       *)
(* mantissas of Python's floats and their exact products.                  *)
(***************************************************************************)
\* digits of a BigNat are counted in this base
Base == 2^15

\* a BigNat without its leading zero digits
RECURSIVE Norm(_)
Norm(a) == IF a = <<>> \/ a[Len(a)] # 0 THEN a ELSE Norm(SubSeq(a, 1, Len(a) - 1))

RECURSIVE FromInt(_)
FromInt(n) == IF n = 0 THEN <<>> ELSE <<n % Base>> \o FromInt(n \div Base)

RECURSIVE ToInt(_)
ToInt(a) == IF a = <<>> THEN 0 ELSE a[1] + Base * ToInt(Tail(a))

Rest(a) == IF a = <<>> THEN <<>> ELSE Tail(a)
Digit(a) == IF a = <<>> THEN 0 ELSE a[1]
IsOdd(a) == Digit(a) % 2 = 1

RECURSIVE AddCarry(_, _, _)
AddCarry(a, b, c) ==
    IF a = <<>> /\ b = <<>> THEN FromInt(c)
    ELSE LET x == Digit(a) + Digit(b) + c
         IN  <<x % Base>> \o AddCarry(Rest(a), Rest(b), x \div Base)

Add(a, b) == AddCarry(a, b, 0)

RECURSIVE MulSmallCarry(_, _, _)
MulSmallCarry(a, k, c) ==
    IF a = <<>> THEN FromInt(c)
    ELSE LET x == a[1] * k + c
         IN  <<x % Base>> \o MulSmallCarry(Tail(a), k, x \div Base)

\* a * k for 0 <= k <= Base
MulSmall(a, k) == Norm(MulSmallCarry(a, k, 0))

\* a * Base^n
ShiftDigits(a, n) == IF a = <<>> THEN <<>> ELSE [i \in 1..n |-> 0] \o a

RECURSIVE Mul(_, _)
Mul(a, b) ==
    IF b = <<>> THEN <<>>
    ELSE Add(MulSmall(a, b[1]), ShiftDigits(Mul(a, Tail(b)), 1))

RECURSIVE DivModSmall(_, _)
\* quotient and remainder of a by k, 0 < k <= Base
DivModSmall(a, k) ==
    IF a = <<>> THEN [q |-> <<>>, r |-> 0]
    ELSE LET hi == DivModSmall(Tail(a), k)
             x == hi.r * Base + a[1]
         IN  [q |-> Norm(<<x \div k>> \o hi.q), r |-> x % k]

RECURSIVE BitsOf(_)
BitsOf(n) == IF n = 0 THEN 0 ELSE 1 + BitsOf(n \div 2)

BitLen(a) == IF a = <<>> THEN 0 ELSE 15 * (Len(a) - 1) + BitsOf(a[Len(a)])

\* a * 2^s
ShiftLeft(a, s) == ShiftDigits(MulSmall(a, 2^(s % 15)), s \div 15)

\* floor(a / 2^s), and whether a bit that was shifted out was set
ShiftRight(a, s) ==
    LET n == s \div 15
    IN  IF n >= Len(a) THEN [q |-> <<>>, inexact |-> (a # <<>>)]
        ELSE LET d == DivModSmall(SubSeq(a, n + 1, Len(a)), 2^(s % 15))
             IN  [q |-> d.q,
                  inexact |-> (d.r # 0 \/ \E i \in 1..n : a[i] # 0)]

(***************************************************************************)
(* Python floats (IEEE 754 binary64), for values >= 0: x = m * 2^e with    *)
(* m = 0 or 2^52 <= m < 2^53.  Every operation rounds its exact result to  *)
(* the nearest float, ties to even.                                        *)
(***************************************************************************)
FloatZero == [m |-> <<>>, e |-> 0]

\* m * 2^e as a float, for a mantissa m that rounding may have carried to 2^53
Normalized(m, e) ==
    IF BitLen(m) = 54 THEN [m |-> ShiftRight(m, 1).q, e |-> e + 1]
    ELSE [m |-> m, e |-> e]

\* the 53 bits m0 rounded by what follows them: the next bit (half) and whether
\* any later bit is set (sticky); a tie goes to the even mantissa
RoundedUp(m0, half, sticky, e) ==
    Normalized(IF half /\ (sticky \/ IsOdd(m0)) THEN Add(m0, <<1>>) ELSE m0, e)

\* sr.q holds 54 bits: the mantissa and the bit after it
RoundBits(sr, sticky, e) ==
    RoundedUp(ShiftRight(sr.q, 1).q, IsOdd(sr.q), sticky \/ sr.inexact, e)

\* the float nearest to (dm.q + dm.r / d) * 2^e, where dm.q has 54 bits or more
RoundQuotient(dm, e) ==
    RoundBits(ShiftRight(dm.q, BitLen(dm.q) - 54), dm.r # 0, e + (BitLen(dm.q) - 53))

\* the float nearest to n / d * 2^e, with n taken t bits to the left first
RoundShifted(n, d, e, t) == RoundQuotient(DivModSmall(ShiftLeft(n, t), d), e - t)

\* the larger of k and 0
AtLeastZero(k) == IF k > 0 THEN k ELSE 0

\* the float nearest to n / d * 2^e (round to nearest, ties to even), d a small integer
RoundToFloat(n, d, e) ==
    IF n = <<>> THEN FloatZero
    ELSE RoundShifted(n, d, e, AtLeastZero(55 + BitsOf(d) - BitLen(n)))

\* float(text) or the JSON number n / d
FloatOfRatio(n, d) == RoundToFloat(FromInt(n), d, 0)

\* x * y
FloatMul(x, y) == RoundToFloat(Mul(x.m, y.m), 1, x.e + y.e)

\* x + y
FloatAdd(x, y) ==
    IF x.m = <<>> THEN y
    ELSE IF y.m = <<>> THEN x
    ELSE LET e == IF x.e < y.e THEN x.e ELSE y.e
         IN  RoundToFloat(Add(ShiftLeft(x.m, x.e - e), ShiftLeft(y.m, y.e - e)), 1, e)

\* x / s for an int s > 0
FloatDivInt(x, s) == RoundToFloat(x.m, s, x.e)

\* x cut off after two decimal places, in hundredths
Round2Truncated(x) ==
    LET n == MulSmall(x.m, 100)
    IN  IF x.e >= 0 THEN ToInt(ShiftLeft(n, x.e))
        ELSE ToInt(ShiftRight(n, 0 - x.e).q)

\* round(x, 2), in hundredths: the decimal with two places nearest to x, ties to even
Round2(x) ==
    LET n == MulSmall(x.m, 100)
    IN  IF x.e >= 0 THEN ToInt(ShiftLeft(n, x.e))
        ELSE LET sr == ShiftRight(n, (0 - x.e) - 1)
                 q == ShiftRight(sr.q, 1).q
                 up == IsOdd(sr.q) /\ (sr.inexact \/ IsOdd(q))
             IN  ToInt(q) + (IF up THEN 1 ELSE 0)

\* the total rounded and not divided
PerServingUndivided(total, servings) == Round2(total)

\* round(totals / servings, 2), in hundredths, for servings # 0
PerServing(total, servings) ==
    IF servings > 0 THEN Round2(FloatDivInt(total, servings))
    ELSE 0 - Round2(FloatDivInt(total, 0 - servings))

\* the per-100g value taken per gram: factor = ing['grams']
ScaledPerGram(value, grams) == FloatMul(FloatOfRatio(value, 100), FloatOfRatio(grams, 1))

\* ing['nutrients'][f] * factor with factor = ing['grams'] / 100: the per-100g value
\* is the float nearest to its hundredths, grams are whole
Scaled(value, grams) == FloatMul(FloatOfRatio(value, 100), FloatOfRatio(grams, 100))

RECURSIVE SumTotals(_)
\* the loop of calculate_nutrition: totals[f] += nutrients[f] * factor, in floats
SumTotals(ings) ==
    IF ings = <<>> THEN [f \in {"protein", "fat", "carbs", "calories"} |-> FloatZero]
    ELSE LET rest == SumTotals(SubSeq(ings, 1, Len(ings) - 1))
             ing == ings[Len(ings)]
         IN  [f \in {"protein", "fat", "carbs", "calories"} |->
                 FloatAdd(rest[f], Scaled(ing.nutrients[f], ing.grams))]

\* the two dicts built from the running totals: 'perServing' first (its division
\* raises for servings = 0), then 'total'
RoundedTotals(totals, servings) ==
    IF servings = 0
    THEN [raised |-> TRUE, total |-> ZeroNutrients, perServing |-> ZeroNutrients]
    ELSE [raised |-> FALSE,
          total |-> [f \in DOMAIN totals |-> Round2(totals[f])],
          perServing |-> [f \in DOMAIN totals |-> PerServing(totals[f], servings)]]

\* calculate_nutrition(ingredients, servings): raised is TRUE where the division
\* raises ZeroDivisionError; total and perServing in hundredths
calculate_nutrition(ings, servings) == RoundedTotals(SumTotals(ings), servings)

\* the ingredient dict add_ingredient builds from the form: <<>> where int() or
\* float() raises, else <<ingredient>>
IngredientOf(form) ==
    LET fdcId == IF form.fdcId = <<>> THEN <<>> ELSE IntOf(form.fdcId[1])
        grams == IF form.grams = <<>> THEN <<100>> ELSE GramsOf(form.grams[1])
        nut(field) == IF field = <<>> THEN <<0>> ELSE FloatOf(field[1])
    IN  IF \/ fdcId = <<>> \/ grams = <<>>
           \/ \E f \in {"protein", "fat", "carbs", "calories"} : nut(form[f]) = <<>>
        THEN <<>>
        ELSE << [fdcId |-> fdcId[1],
                 description |-> form.description,
                 brandName |-> GetOr(form.brandName, ""),
                 grams |-> grams[1],
                 nutrients |-> [protein |-> nut(form.protein)[1],
                                fat |-> nut(form.fat)[1],
                                carbs |-> nut(form.carbs)[1],
                                calories |-> nut(form.calories)[1]]] >>


\* ingredients of the JSON bodies API clients post
ChickenJson ==
    [fdcId |-> Some(171477), description |-> "Chicken breast", brandName |-> "",
     grams |-> 200,
     nutrients |-> [protein |-> 3100, fat |-> 357, carbs |-> 0, calories |-> 16500]]
RiceJson ==
    [fdcId |-> Some(168878), description |-> "Rice", brandName |-> "Acme",
     grams |-> 150,
     nutrients |-> [protein |-> 270, fat |-> 30, carbs |-> 2800, calories |-> 13000]]
ButterJson ==
    [fdcId |-> Some(173410), description |-> "Butter", brandName |-> "",
     grams |-> 10,
     nutrients |-> [protein |-> 85, fat |-> 8111, carbs |-> 6, calories |-> 71700]]

\* an ingredient of a body posted to /api/calculate: the grams key may be missing
CalcFood(json) == [grams |-> Some(json.grams), nutrients |-> json.nutrients]
NoGramsFood == [grams |-> None, nutrients |-> RiceJson.nutrients]
ZeroGramsFood == [grams |-> Some(0), nutrients |-> RiceJson.nutrients]

CalcFoods == {CalcFood(ChickenJson), CalcFood(RiceJson), CalcFood(ButterJson)}

\* the lists of at most n different members of S, in every order
ListsOf(S, n) ==
    {l \in UNION {[1..k -> S] : k \in 0..n} : \A i, j \in DOMAIN l : l[i] = l[j] => i = j}

CalcBody(ings, servings) == [ingredients |-> ings, servings |-> servings]

\* request.get_json() of the posts the API clients send to /api/calculate
CalcBodies ==
    {None}
    \cup {Some(CalcBody(Some(l), Some(2))) : l \in ListsOf(CalcFoods, MaxCalcIngredients)}
    \cup {Some(CalcBody(None, Some(2))),
          Some(CalcBody(Some(<<CalcFood(ChickenJson), CalcFood(RiceJson)>>), None)),
          Some(CalcBody(Some(<<CalcFood(ChickenJson), CalcFood(RiceJson)>>), Some(3))),
          Some(CalcBody(Some(<<CalcFood(ChickenJson)>>), Some(0))),
          Some(CalcBody(Some(<<CalcFood(ChickenJson)>>), Some(0 - 1))),
          Some(CalcBody(Some(<<CalcFood(ChickenJson), NoGramsFood>>), Some(2))),
          Some(CalcBody(Some(<<ZeroGramsFood>>), Some(1)))}

\* grams = ingredient.get('grams', 0); nutrients = ingredient.get('nutrients', {})
CalcAmounts(ings) ==
    [k \in 1..Len(ings) |->
        [grams |-> GetOr(ings[k].grams, 0), nutrients |-> ings[k].nutrients]]

(***************************************************************************)
(* The aggregations of this model, computed once.  A handler that calls    *)
(* calculate_nutrition reads its value here.                               *)
(***************************************************************************)
\* what the aggregator reads of an ingredient
Amounts(ings) ==
    [k \in 1..Len(ings) |-> [grams |-> ings[k].grams, nutrients |-> ings[k].nutrients]]

\* the ingredient lists a draft can hold
DraftLists ==
    UNION {[1..k -> {IngredientOf(form)[1] : form \in {f \in AddForms \cup ZeroForms : IngredientOf(f) # <<>>}}]
              : k \in 0..MaxIngredients}

Aggregations ==
    {<<Amounts(l), servings>> : l \in DraftLists, servings \in {1, 2}}
    \cup {<<CalcAmounts(GetOr(b[1].ingredients, <<>>)), GetOr(b[1].servings, 1)>>
             : b \in {c \in CalcBodies : c # <<>>}}

NutritionTable == [x \in Aggregations |-> calculate_nutrition(x[1], x[2])]

\* calculate_nutrition(ingredients, servings), from the table where it is there
Nutrition(ings, servings) ==
    IF <<Amounts(ings), servings>> \in DOMAIN NutritionTable
    THEN NutritionTable[<<Amounts(ings), servings>>]
    ELSE calculate_nutrition(Amounts(ings), servings)

\* what the browser holds after a request: the handler that answered, the index of
\* the request's path (0 where the path has none), and the response; meal and
\* nutrition are the draft and the nutrition a draft page shows and json the value
\* of a JSON response (each <<>> where the response has none)
Page(handler, index, kind, error) ==
    [handler |-> handler, index |-> index, kind |-> kind, error |-> error,
     meal |-> <<>>, nutrition |-> <<>>, json |-> <<>>]

\* render_template('create_meal.html', meal=current_meal, nutrition=nutrition, ...)
DraftPage(handler, current_meal, nutrition) ==
    [Page(handler, 0, "create_meal", "") EXCEPT
        !.meal = << current_meal >>,
        !.nutrition = << [total |-> nutrition.total,
                          perServing |-> nutrition.perServing] >>]

(***************************************************************************)
(* Backend requests in flight.  A worker's record: the handler (op), where *)
(* it stands (pc), who waits for the answer (client), the JSON body (data, *)
(* optional), the path id, the Meal row flushed but not committed (row,    *)
(* optional), the answer of the catalog the handler has read (reply,       *)
(* optional), the handler's database session (db: "none" before            *)
(* SessionLocal() and in the handlers that call none, then "open", then    *)
(* "closed"), and, once pc = "done", the response (status, body: the meal  *)
(* dicts returned).                                                        *)
(***************************************************************************)
Idle ==
    [op |-> "idle", pc |-> "idle", client |-> "none", data |-> <<>>, id |-> 0,
     row |-> <<>>, dicts |-> <<>>, upstream |-> 0, reply |-> <<>>, db |-> "none",
     status |-> 0, body |-> <<>>]

Request(op, client, data, id) ==
    [op |-> op, pc |-> "start", client |-> client, data |-> data, id |-> id,
     row |-> <<>>, dicts |-> <<>>, upstream |-> 0, reply |-> <<>>, db |-> "none",
     status |-> 0, body |-> <<>>]

\* db = SessionLocal()
OpenSession(r) == [r EXCEPT !.db = "open"]

\* a handler with no finally clause
KeepOpen(r) == r

\* finally: db.close(), in the handlers that have opened a session
CloseSession(r) == [r EXCEPT !.db = IF @ = "open" THEN "closed" ELSE @]

\* the handler returns: jsonify(...), status; the finally clause runs on the way out
Respond(r, status, body) ==
    CloseSession([r EXCEPT !.pc = "done", !.status = status, !.body = body,
                           !.row = <<>>, !.dicts = <<>>])

(***************************************************************************)
(* Frontend handlers (src/frontend/app.py).  The browser sends one request *)
(* at a time: every handler waits for fpc = "idle".                        *)
(***************************************************************************)
\* an append that merges entries of one food: a food already listed is not added
AppendIngredientDeduplicated(list, ingredient) ==
    IF \E k \in DOMAIN list : list[k].fdcId = ingredient.fdcId
    THEN list
    ELSE Append(list, ingredient)

\* current_meal['ingredients'].append(ingredient)
AppendIngredient(list, ingredient) == Append(list, ingredient)

\* POST /add-ingredient
add_ingredient(form) ==
    /\ fpc = "idle"
    /\ LET current_meal == CurrentMeal(session)
           ingredient == IngredientOf(form)
       IN  /\ Len(current_meal.ingredients) < MaxIngredients
           /\ IF ingredient = <<>>
              THEN /\ page' = Page("add_ingredient", 0, "internal_error", "TypeError or ValueError")
                   /\ session' = session
              ELSE /\ page' = Page("add_ingredient", 0, "redirect", "")
                   /\ session' = << [current_meal EXCEPT !.ingredients =
                                        AppendIngredient(@, ingredient[1])] >>
    /\ UNCHANGED <<fpc, req>>
    /\ UNCHANGED storeVars
    /\ UNCHANGED adds

\* the check without its lower bound: list.pop(-1) removes the last entry
RemoveAtNoLowerBound(list, index) ==
    IF index < Len(list)
    THEN IF index >= 0 THEN Pop(list, index)
         ELSE IF Len(list) + index >= 0 THEN Pop(list, Len(list) + index) ELSE list
    ELSE list

\* the body of remove_ingredient's if: the list after the request
RemoveAt(list, index) ==
    IF 0 <= index /\ index < Len(list) THEN Pop(list, index) ELSE list

\* POST /remove-ingredient/<index>
remove_ingredient(index) ==
    /\ fpc = "idle"
    /\ page' = Page("remove_ingredient", index, "redirect", "")
    /\ LET current_meal == CurrentMeal(session)
       IN  session' = << [current_meal EXCEPT !.ingredients = RemoveAt(@, index)] >>
    /\ UNCHANGED <<fpc, req>>
    /\ UNCHANGED storeVars
    /\ UNCHANGED adds

\* POST /update-meal-info
update_meal_info(form) ==
    /\ fpc = "idle"
    /\ LET current_meal == CurrentMeal(session)
           servings == IF form.servings = <<>> THEN <<1>> ELSE IntOf(form.servings[1])
       IN  IF servings = <<>>
           THEN /\ page' = Page("update_meal_info", 0, "internal_error", "ValueError")
                /\ session' = session
           ELSE /\ session' = << [current_meal EXCEPT
                                     !.name = GetOr(form.name, "My Meal"),
                                     !.servings = servings[1]] >>
                /\ page' = Page("update_meal_info", 0, "redirect", "")
    /\ UNCHANGED <<fpc, req>>
    /\ UNCHANGED storeVars
    /\ UNCHANGED adds

\* a reset that empties the ingredient list and keeps the name and the servings
SessionPopIngredients(s) ==
    IF s = <<>> THEN <<>> ELSE << [s[1] EXCEPT !.ingredients = <<>>] >>

\* session.pop('current_meal', None)
SessionPop(s) == <<>>

\* POST /clear-meal
clear_meal ==
    /\ fpc = "idle"
    /\ session' = SessionPop(session)
    /\ page' = Page("clear_meal", 0, "redirect", "")
    /\ UNCHANGED <<fpc, req>>
    /\ UNCHANGED storeVars
    /\ UNCHANGED adds

\* GET /create-meal
create_meal_page ==
    /\ fpc = "idle"
    /\ LET current_meal == CurrentMeal(session)
           nutrition == Nutrition(current_meal.ingredients, current_meal.servings)
       IN  page' = IF nutrition.raised
                   THEN Page("create_meal_page", 0, "internal_error", "ZeroDivisionError")
                   ELSE DraftPage("create_meal_page", current_meal, nutrition)
    /\ UNCHANGED <<session, fpc, req>>
    /\ UNCHANGED storeVars
    /\ UNCHANGED adds

\* what requests.get(f'{BACKEND_URL}/api/search', ...) and response.json() give
\* search_ingredient: a JSON object (with or without 'foods'), or an exception
SearchAnswers == {"foods", "no foods", "raises"}

\* POST /search-ingredient.  The backend's search reads and writes no state of its
\* own; its answer is an input here.
search_ingredient(answer) ==
    /\ fpc = "idle"
    /\ LET current_meal == CurrentMeal(session)
           nutrition == Nutrition(current_meal.ingredients, current_meal.servings)
       IN  page' = IF answer = "raises"
                   THEN Page("search_ingredient", 0, "error", "requests exception")
                   ELSE IF nutrition.raised
                   THEN Page("search_ingredient", 0, "error",
                             IF current_meal.ingredients = <<>>
                             THEN "division by zero" ELSE "float division by zero")
                   ELSE DraftPage("search_ingredient", current_meal, nutrition)
    /\ UNCHANGED <<session, fpc, req>>
    /\ UNCHANGED storeVars
    /\ UNCHANGED adds

\* json=meal_data: an ingredient of the draft as the backend reads it
JsonIngredient(ing) == [ing EXCEPT !.fdcId = Some(ing.fdcId)]

\* the meal_data dict save_meal posts
MealData(current_meal, nutrition) ==
    [name |-> Some(current_meal.name),
     servings |-> Some(current_meal.servings),
     ingredients |-> [k \in 1..Len(current_meal.ingredients) |->
                          JsonIngredient(current_meal.ingredients[k])],
     nutritionTotal |-> nutrition.total,
     nutritionPerServing |-> nutrition.perServing]

\* save_meal without its validation
HasIngredientsUnchecked(current_meal) == TRUE

\* save_meal's validation: the draft may be sent
HasIngredients(current_meal) == current_meal.ingredients # <<>>

\* POST /save-meal, up to the call of requests.post
save_meal ==
    /\ fpc = "idle"
    /\ LET current_meal == CurrentMeal(session)
           nutrition == Nutrition(current_meal.ingredients, current_meal.servings)
       IN  IF ~HasIngredients(current_meal)
           THEN /\ page' = Page("save_meal", 0, "error", "No ingredients added to meal!")
                /\ UNCHANGED <<fpc, req>>
           ELSE IF nutrition.raised
           THEN /\ page' = Page("save_meal", 0, "internal_error", "ZeroDivisionError")
                /\ UNCHANGED <<fpc, req>>
           ELSE \E w \in Workers :
                   /\ nextMealId < MaxSaves
                   /\ req[w].op = "idle"
                   /\ req' = [req EXCEPT ![w] =
                                 Request("save_meal", "frontend",
                                         Some(MealData(current_meal, nutrition)), 0)]
                   /\ fpc' = "posting"
                   /\ page' = Page("save_meal", 0, "waiting", "")
    /\ UNCHANGED session
    /\ UNCHANGED storeVars
    /\ UNCHANGED adds

\* every response taken for a success
OkAlways(status) == TRUE

\* response.ok
Ok(status) == status < 400

\* the draft dropped whatever the backend answers
AfterSaveAlwaysPops(s, status) == <<>>

\* the session after the response: session.pop('current_meal', None) when ok
AfterSave(s, status) == IF Ok(status) THEN <<>> ELSE s

\* save_meal, requests.post returns the backend's response
save_meal_response(w) ==
    /\ fpc = "posting"
    /\ req[w].client = "frontend"
    /\ req[w].pc = "done"
    /\ session' = AfterSave(session, req[w].status)
    /\ page' = IF Ok(req[w].status)
               THEN Page("save_meal", 0, "redirect_meals", "")
               ELSE Page("save_meal", 0, "error", "Error saving meal to backend")
    /\ fpc' = "idle"
    /\ req' = [req EXCEPT ![w] = Idle]
    /\ UNCHANGED storeVars
    /\ UNCHANGED adds

\* save_meal, requests.post raises: the request never reaches the backend, or the
\* backend's response never reaches the frontend
save_meal_raises(w) ==
    /\ fpc = "posting"
    /\ req[w].client = "frontend"
    /\ req[w].pc \in {"start", "done"}
    /\ page' = Page("save_meal", 0, "error", "requests exception")
    /\ fpc' = "idle"
    /\ req' = [req EXCEPT ![w] = Idle]
    /\ UNCHANGED session
    /\ UNCHANGED storeVars
    /\ UNCHANGED adds

(***************************************************************************)
(* Requests of one session in flight together.  The session is a signed    *)
(* cookie (app.secret_key, no server-side store): a request carries the    *)
(* cookie the browser holds when it sends it, the handler works on the     *)
(* session opened from that cookie, and the response's Set-Cookie replaces *)
(* the cookie the browser holds.  A browser with two tabs, or a form       *)
(* submitted twice, sends a request before the response to the one before  *)
(* has arrived.                                                            *)
(***************************************************************************)
\* the requests the browser sends without waiting
Tabs == {"t1", "t2"}

\* no request sent
NoAdd == [pc |-> "idle", cookie |-> <<>>, form |-> <<>>, set |-> FALSE]

\* the browser posts /add-ingredient with the cookie it holds
add_ingredient_send(t, form) ==
    /\ adds[t].pc \in {"idle", "completed"}
    /\ Len(CurrentMeal(session).ingredients) < MaxIngredients
    /\ adds' = [adds EXCEPT ![t] =
                   [pc |-> "sent", cookie |-> session, form |-> << form >>, set |-> FALSE]]
    /\ UNCHANGED <<session, page, fpc, req>>
    /\ UNCHANGED storeVars

\* POST /add-ingredient on the session of the request's cookie: the response sets
\* the cookie when the handler has written the session, and not when it raised
add_ingredient_handle(t) ==
    /\ adds[t].pc = "sent"
    /\ LET current_meal == CurrentMeal(adds[t].cookie)
           ingredient == IngredientOf(adds[t].form[1])
       IN  adds' = [adds EXCEPT ![t] =
                       IF ingredient = <<>>
                       THEN [@ EXCEPT !.pc = "answered"]
                       ELSE [@ EXCEPT
                                !.pc = "answered", !.set = TRUE,
                                !.cookie = << [current_meal EXCEPT !.ingredients =
                                                  AppendIngredient(@, ingredient[1])] >>]]
    /\ UNCHANGED <<session, page, fpc, req>>
    /\ UNCHANGED storeVars

\* the browser receives the response to its /add-ingredient request
add_ingredient_receive(t) ==
    /\ adds[t].pc = "answered"
    /\ session' = IF adds[t].set THEN adds[t].cookie ELSE session
    /\ page' = IF adds[t].set
               THEN Page("add_ingredient", 0, "redirect", "")
               ELSE Page("add_ingredient", 0, "internal_error", "TypeError or ValueError")
    /\ adds' = [adds EXCEPT ![t] = [@ EXCEPT !.pc = "completed", !.cookie = <<>>]]
    /\ UNCHANGED <<fpc, req>>
    /\ UNCHANGED storeVars

(***************************************************************************)
(* The Meal Store (src/backend/app.py, src/backend/models.py).  The tables *)
(* hold committed rows; a row flushed inside a transaction is held by the  *)
(* request (req[w].row) until COMMIT and is seen by no other request       *)
(* (PostgreSQL READ COMMITTED).  Every statement may fail (connection      *)
(* lost, constraint violated): the handler's except branch then answers.   *)
(***************************************************************************)
\* the JSON bodies API clients post to /api/meals
StewBody ==
    [name |-> Some("Stew"), servings |-> Some(2),
     ingredients |-> <<ChickenJson, RiceJson>>,
     nutritionTotal |-> [protein |-> 6605, fat |-> 759, carbs |-> 4200,
                         calories |-> 52500],
     nutritionPerServing |-> [protein |-> 3302, fat |-> 380, carbs |-> 2100,
                              calories |-> 26250]]
\* no name key, servings 0
ZeroServingsBody ==
    [name |-> None, servings |-> Some(0),
     ingredients |-> <<RiceJson>>,
     nutritionTotal |-> [protein |-> 405, fat |-> 45, carbs |-> 4200,
                         calories |-> 19500],
     nutritionPerServing |-> ZeroNutrients]
\* the second ingredient has no fdcId key: fdc_id is NOT NULL
NoFdcIdBody ==
    [name |-> Some("Soup"), servings |-> None,
     ingredients |-> <<ChickenJson, [RiceJson EXCEPT !.fdcId = None]>>,
     nutritionTotal |-> ZeroNutrients,
     nutritionPerServing |-> ZeroNutrients]

\* servings 2, and per-serving values that are the totals
UndividedBody ==
    [name |-> Some("Rice"), servings |-> Some(2),
     ingredients |-> <<RiceJson>>,
     nutritionTotal |-> [protein |-> 405, fat |-> 45, carbs |-> 4200,
                         calories |-> 19500],
     nutritionPerServing |-> [protein |-> 405, fat |-> 45, carbs |-> 4200,
                              calories |-> 19500]]

\* request.get_json() of the posts the API clients send: <<>> is no (or an empty) body
ApiBodies == {None, Some(StewBody), Some(ZeroServingsBody), Some(NoFdcIdBody)}

\* Meal(...) of save_meal, with the id the flush assigns and the value of
\* datetime.utcnow() at its INSERT
MealRow(id, data, created_at) ==
    [id |-> id,
     created_at |-> created_at,
     name |-> GetOr(data.name, "Unnamed Meal"),
     servings |-> GetOr(data.servings, 1),
     total |-> data.nutritionTotal,
     per_serving |-> data.nutritionPerServing]

\* Ingredient(...) of save_meal, with the id its INSERT assigns; the INSERT fails
\* for a row whose fdc_id is None (nullable=False)
IngredientRow(id, meal_id, ing_data) ==
    [id |-> id,
     meal_id |-> meal_id,
     fdc_id |-> ing_data.fdcId,
     description |-> ing_data.description,
     brand_name |-> ing_data.brandName,
     grams |-> ing_data.grams,
     nutrients |-> ing_data.nutrients]

InsertFails(row) == row.fdc_id = <<>>

\* Ingredient.to_dict
IngredientDict(row) ==
    [id |-> row.id,
     fdcId |-> row.fdc_id[1],
     description |-> row.description,
     brandName |-> row.brand_name,
     grams |-> row.grams,
     nutrients |-> row.nutrients]

\* Meal.to_dict, the ingredients as the relationship loaded them
MealDict(row, loaded) ==
    [id |-> row.id,
     name |-> row.name,
     servings |-> row.servings,
     nutritionTotal |-> row.total,
     nutritionPerServing |-> row.per_serving,
     ingredients |-> [k \in 1..Len(loaded) |-> IngredientDict(loaded[k])],
     createdAt |-> row.created_at]

\* the rows of table ingredients a meal owns
OwnedBy(rows, meal_id) == {r \in rows : r.meal_id = meal_id}

\* every order in which a SELECT may return the rows of S
Orders(S) ==
    {f \in [1..Cardinality(S) -> S] : \A i, j \in DOMAIN f : f[i] = f[j] => i = j}

\* Meal.ingredients = relationship("Ingredient", ...): SELECT ... WHERE meal_id = :id
\* with no ORDER BY, so the rows come in an order the database chooses
LoadIngredients(rows, meal_id) == Orders(OwnedBy(rows, meal_id))

\* the query without its filter: the first row of the table, whatever its id
QueryMealUnfiltered(rows, meal_id) ==
    IF rows = {} THEN <<>> ELSE << CHOOSE m \in rows : TRUE >>

\* db.query(Meal).filter(Meal.id == meal_id).first(): <<>> or <<row>>
QueryMeal(rows, meal_id) ==
    IF \E m \in rows : m.id = meal_id
    THEN << CHOOSE m \in rows : m.id = meal_id >>
    ELSE <<>>

\* a client sends a request to the API; a worker takes it
api_request(w, op, data, id) ==
    /\ req[w].op = "idle"
    /\ req' = [req EXCEPT ![w] = Request(op, "api", data, id)]
    /\ UNCHANGED frontVars
    /\ UNCHANGED storeVars

\* the client receives the response (or nobody waits for it any more)
api_receive(w) ==
    /\ req[w].pc = "done"
    /\ req[w].client # "frontend"
    /\ req' = [req EXCEPT ![w] = Idle]
    /\ UNCHANGED frontVars
    /\ UNCHANGED storeVars

\* a failed transaction whose rows stay (autocommit, or no rollback)
RollbackKeepsWritten(committedRows, writtenRows) == committedRows \cup writtenRows

\* db.rollback(): what the tables hold after a transaction that failed
Rollback(committedRows, writtenRows) == committedRows

\* POST /api/meals, to db.flush(): 400 without a body; else db = SessionLocal() and
\* the Meal row is inserted inside the transaction; now is what datetime.utcnow()
\* returns for created_at
save_meal_flush(w, now) ==
    /\ req[w].op = "save_meal" /\ req[w].pc = "start"
    /\ IF req[w].data = <<>>
       THEN /\ req' = [req EXCEPT ![w] = Respond(req[w], 400, <<>>)]
            /\ UNCHANGED nextMealId
       ELSE \/ /\ nextMealId < MaxMeals
               /\ nextMealId' = nextMealId + 1
               /\ req' = [req EXCEPT ![w] =
                             [OpenSession(req[w]) EXCEPT
                                 !.pc = "commit",
                                 !.row = << MealRow(nextMealId + 1, req[w].data[1], now) >>]]
            \/ \* the INSERT fails: except, rollback, 500
               /\ req' = [req EXCEPT ![w] = Respond(OpenSession(req[w]), 500, <<>>)]
               /\ UNCHANGED nextMealId
    /\ UNCHANGED <<meals, ingredients, nextIngId, given, aborted>>
    /\ UNCHANGED frontVars

\* the Ingredient rows of the loop, in the order of db.add
NewIngredientRows(meal_id, data, firstId) ==
    [k \in 1..Len(data.ingredients) |->
        IngredientRow(firstId + k, meal_id, data.ingredients[k])]

\* how many of the rows are inserted before an INSERT fails by itself
InsertedBeforeFailure(rows) ==
    IF \E k \in DOMAIN rows : InsertFails(rows[k])
    THEN (CHOOSE k \in DOMAIN rows :
              InsertFails(rows[k]) /\ \A j \in 1..(k - 1) : ~InsertFails(rows[j])) - 1
    ELSE Len(rows)

\* POST /api/meals, db.commit(): the Ingredient rows are inserted, then COMMIT
save_meal_commit(w) ==
    /\ req[w].op = "save_meal" /\ req[w].pc = "commit"
    /\ LET meal == req[w].row[1]
           data == req[w].data[1]
           rows == NewIngredientRows(meal.id, data, nextIngId)
           n == InsertedBeforeFailure(rows)
       IN  \/ \* every INSERT and the COMMIT succeed
              /\ n = Len(rows)
              /\ meals' = meals \cup {meal}
              /\ ingredients' = ingredients \cup {rows[k] : k \in 1..n}
              /\ nextIngId' = nextIngId + n
              /\ given' = (meal.id :> data) @@ given
              /\ aborted' = aborted
              /\ req' = [req EXCEPT ![w].pc = "refresh"]
           \/ \* an INSERT or the COMMIT fails after k rows: except, rollback, 500
              \E k \in 0..n :
                 /\ meals' = Rollback(meals, {meal})
                 /\ ingredients' = Rollback(ingredients, {rows[j] : j \in 1..k})
                 /\ nextIngId' = nextIngId + k
                 /\ given' = given
                 /\ aborted' = aborted \cup {meal.id}
                 /\ req' = [req EXCEPT ![w] = Respond(req[w], 500, <<>>)]
    /\ UNCHANGED nextMealId
    /\ UNCHANGED frontVars

\* POST /api/meals, db.refresh(meal): the row is read again
save_meal_refresh(w) ==
    /\ req[w].op = "save_meal" /\ req[w].pc = "refresh"
    /\ LET found == QueryMeal(meals, req[w].row[1].id)
       IN  \/ /\ found # <<>>
              /\ req' = [req EXCEPT ![w] = [req[w] EXCEPT !.pc = "load", !.row = found]]
           \/ \* the row is gone, or the SELECT fails: except, 500
              /\ req' = [req EXCEPT ![w] = Respond(req[w], 500, <<>>)]
    /\ UNCHANGED storeVars
    /\ UNCHANGED frontVars

\* GET /api/meals/<id>: db = SessionLocal(), and the query
get_meal_query(w) ==
    /\ req[w].op = "get_meal" /\ req[w].pc = "start"
    /\ LET found == QueryMeal(meals, req[w].id)
       IN  \/ /\ found = <<>>
              /\ req' = [req EXCEPT ![w] = Respond(OpenSession(req[w]), 404, <<>>)]
           \/ /\ found # <<>>
              /\ req' = [req EXCEPT ![w] = [OpenSession(req[w]) EXCEPT !.pc = "load", !.row = found]]
           \/ \* the SELECT fails: except, 500
              /\ req' = [req EXCEPT ![w] = Respond(OpenSession(req[w]), 500, <<>>)]
    /\ UNCHANGED storeVars
    /\ UNCHANGED frontVars

\* meal.to_dict() of save_meal and get_meal: the relationship loads the ingredients
meal_to_dict(w) ==
    /\ req[w].op \in {"save_meal", "get_meal"} /\ req[w].pc = "load"
    /\ \/ \E loaded \in LoadIngredients(ingredients, req[w].row[1].id) :
             req' = [req EXCEPT ![w] =
                        Respond(req[w], IF req[w].op = "save_meal" THEN 201 ELSE 200,
                                << MealDict(req[w].row[1], loaded) >>)]
       \/ \* the SELECT fails: except, 500
          req' = [req EXCEPT ![w] = Respond(req[w], 500, <<>>)]
    /\ UNCHANGED storeVars
    /\ UNCHANGED frontVars

\* the rows in every order ORDER BY created_at DESC allows (rows of one timestamp
\* come in an order the database chooses)
OrderedByCreatedAtDesc(rows) ==
    {f \in Orders(rows) :
        \A i, j \in DOMAIN f : i < j => f[i].created_at >= f[j].created_at}

\* the rows with no ORDER BY
QueryAllUnordered(rows) == Orders(rows)

\* db.query(Meal).order_by(Meal.created_at.desc()).all()
QueryAll(rows) == OrderedByCreatedAtDesc(rows)

\* jsonify({'total': len(meals), 'meals': [...]})
Listing(rows, dicts) == [total |-> Len(rows), meals |-> dicts]

\* GET /api/meals: db = SessionLocal(), and the query; the Meal objects are kept
\* in req[w].row
get_meals_query(w) ==
    /\ req[w].op = "get_meals" /\ req[w].pc = "start"
    /\ \/ \E rows \in QueryAll(meals) :
             req' = [req EXCEPT ![w] =
                        IF rows = <<>>
                        THEN Respond(OpenSession(req[w]), 200, << Listing(rows, <<>>) >>)
                        ELSE [OpenSession(req[w]) EXCEPT !.pc = "load", !.row = rows]]
       \/ \* the SELECT fails: except, 500
          req' = [req EXCEPT ![w] = Respond(OpenSession(req[w]), 500, <<>>)]
    /\ UNCHANGED storeVars
    /\ UNCHANGED frontVars

\* GET /api/meals, meal.to_dict() of the next Meal object: its relationship loads
\* the ingredients with a SELECT of its own
get_meals_to_dict(w) ==
    /\ req[w].op = "get_meals" /\ req[w].pc = "load"
    /\ LET rows == req[w].row
           k == Len(req[w].dicts) + 1
       IN  \/ \E loaded \in LoadIngredients(ingredients, rows[k].id) :
                 LET dicts == Append(req[w].dicts, MealDict(rows[k], loaded))
                 IN  req' = [req EXCEPT ![w] =
                                IF k = Len(rows)
                                THEN Respond(req[w], 200, << Listing(rows, dicts) >>)
                                ELSE [req[w] EXCEPT !.dicts = dicts]]
           \/ \* the SELECT fails: except, 500
              req' = [req EXCEPT ![w] = Respond(req[w], 500, <<>>)]
    /\ UNCHANGED storeVars
    /\ UNCHANGED frontVars

\* DELETE /api/meals/<id>: db = SessionLocal(), and the query
delete_meal_query(w) ==
    /\ req[w].op = "delete_meal" /\ req[w].pc = "start"
    /\ LET found == QueryMeal(meals, req[w].id)
       IN  \/ /\ found = <<>>
              /\ req' = [req EXCEPT ![w] = Respond(OpenSession(req[w]), 404, <<>>)]
           \/ /\ found # <<>>
              /\ req' = [req EXCEPT ![w] = [OpenSession(req[w]) EXCEPT !.pc = "commit", !.row = found]]
           \/ \* the SELECT fails: except, rollback, 500
              /\ req' = [req EXCEPT ![w] = Respond(OpenSession(req[w]), 500, <<>>)]
    /\ UNCHANGED storeVars
    /\ UNCHANGED frontVars

\* a relationship with no cascade: the meal's Ingredient rows are left
CascadeNone(rows, meal_id) == {}

\* cascade="all, delete-orphan": the Ingredient rows db.delete(meal) deletes with it
Cascade(rows, meal_id) == OwnedBy(rows, meal_id)

\* DELETE /api/meals/<id>, db.delete(meal); db.commit()
delete_meal_commit(w) ==
    /\ req[w].op = "delete_meal" /\ req[w].pc = "commit"
    /\ LET meal_id == req[w].row[1].id
       IN  \/ /\ meals' = {m \in meals : m.id # meal_id}
              /\ ingredients' = ingredients \ Cascade(ingredients, meal_id)
              /\ \E status \in (IF QueryMeal(meals, meal_id) = <<>>
                                THEN {200, 500} ELSE {200}) :
                    req' = [req EXCEPT ![w] = Respond(req[w], status, <<>>)]
           \/ \* a DELETE or the COMMIT fails: except, rollback, 500
              /\ meals' = Rollback(meals, {})
              /\ ingredients' = Rollback(ingredients, {})
              /\ req' = [req EXCEPT ![w] = Respond(req[w], 500, <<>>)]
    /\ UNCHANGED <<nextMealId, nextIngId, given, aborted>>
    /\ UNCHANGED frontVars

(***************************************************************************)
(* The Nutrition Aggregator's endpoint, POST /api/calculate                *)
(* (src/backend/app.py).  It reads and writes no table.                    *)
(***************************************************************************)
\* the validation without its check of the list
CalcValidServingsOnly(ings, servings) == servings > 0

\* the validation of calculate_meal: the body may be aggregated
CalcValid(ings, servings) == ings # <<>> /\ servings > 0

\* the per-100g value taken per gram: factor = grams
MealScaledPerGram(value, grams) == ScaledPerGram(value, grams)

\* nutrients.get(f, 0) * factor with factor = grams / 100
MealScaled(value, grams) == Scaled(value, grams)

RECURSIVE MealTotals(_)
\* the loop of calculate_meal: grams = ingredient.get('grams', 0), and
\* totals[f] += nutrients.get(f, 0) * factor, in floats
MealTotals(ings) ==
    IF ings = <<>> THEN [f \in {"protein", "fat", "carbs", "calories"} |-> FloatZero]
    ELSE LET rest == MealTotals(SubSeq(ings, 1, Len(ings) - 1))
             ingredient == ings[Len(ings)]
         IN  [f \in {"protein", "fat", "carbs", "calories"} |->
                 FloatAdd(rest[f],
                          MealScaled(ingredient.nutrients[f], GetOr(ingredient.grams, 0)))]

\* result: per_serving and total rounded from the running totals, and servings;
\* servings > 0 here
MealResult(totals, servings) ==
    [total |-> [f \in DOMAIN totals |-> Round2(totals[f])],
     perServing |-> [f \in DOMAIN totals |-> PerServing(totals[f], servings)],
     servings |-> servings]

\* the results of the valid bodies of this model, computed once
MealResults ==
    [b \in {c \in CalcBodies :
               c # <<>> /\ CalcValid(GetOr(c[1].ingredients, <<>>), GetOr(c[1].servings, 1))}
       |-> MealResult(MealTotals(GetOr(b[1].ingredients, <<>>)), GetOr(b[1].servings, 1))]

\* the result for a valid body, from the table where it is there
MealResultOf(data) ==
    IF Some(data) \in DOMAIN MealResults THEN MealResults[Some(data)]
    ELSE MealResult(MealTotals(GetOr(data.ingredients, <<>>)), GetOr(data.servings, 1))

\* POST /api/calculate
calculate_meal(w) ==
    /\ req[w].op = "calculate_meal" /\ req[w].pc = "start"
    /\ IF req[w].data = <<>>
       THEN req' = [req EXCEPT ![w] = Respond(req[w], 400, <<>>)]
       ELSE IF ~CalcValid(GetOr(req[w].data[1].ingredients, <<>>),
                          GetOr(req[w].data[1].servings, 1))
       THEN req' = [req EXCEPT ![w] = Respond(req[w], 400, <<>>)]
       ELSE req' = [req EXCEPT ![w] =
                       Respond(req[w], 200, << MealResultOf(req[w].data[1]) >>)]
    /\ UNCHANGED storeVars
    /\ UNCHANGED frontVars

(***************************************************************************)
(* Autocomplete: GET /autocomplete of the backend (src/backend/app.py),    *)
(* which asks the catalog (USDA FoodData Central), and the frontend's      *)
(* proxy GET /api/autocomplete (src/frontend/app.py).  req[w].data is the  *)
(* query string: <<>> when the request has no q, else <<q>>;               *)
(* req[w].upstream counts the calls to the catalog made for the request.   *)
(***************************************************************************)
\* request.args.get('q', '')
QueryOf(r) == GetOr(r.data, "")

\* the guard taken when the query is empty only
ShortQueryEmptyOnly(query) == Len(query) < 1

\* len(query) < 2
ShortQuery(query) == Len(query) < 2

\* data['foods'] of n foods; the first has no description, the second no fdcId
Foods(n) ==
    [k \in 1..n |-> [description |-> IF k = 1 THEN None ELSE Some("food"),
                     fdcId |-> IF k = 2 THEN None ELSE Some(k)]]

\* how requests.get(url, params=params, timeout=10) and the lines after it end
FailureKinds == {"timeout", "connection error", "http error", "not json"}
OddBodyKinds == {"not an object", "foods not a list", "food not an object"}
UpstreamReplies ==
    {[kind |-> k, foods |-> <<>>] : k \in FailureKinds \cup OddBodyKinds \cup {"no foods"}}
        \cup {[kind |-> "foods", foods |-> Foods(n)] : n \in 0..MaxFoods}

\* an exception is raised inside the try block: requests.get (timeout, connection
\* error), raise_for_status (4xx/5xx), response.json() (malformed body), or the
\* lines that read data (a body that is not what the loop expects)
Raises(reply) == reply.kind \in FailureKinds \cup OddBodyKinds

\* the slots of the suggestion list
SuggestionLimit == 10

\* every food, not only the first ten
AllFoods(foods) == foods

\* data['foods'][:10]
FirstTen(foods) ==
    SubSeq(foods, 1, IF Len(foods) < SuggestionLimit THEN Len(foods) ELSE SuggestionLimit)

\* the suggestions built from the reply; fdcId <<>> stands for the default ''
Suggestions(reply) ==
    IF Raises(reply) \/ reply.kind = "no foods" THEN <<>>
    ELSE [k \in DOMAIN FirstTen(reply.foods) |->
             [name |-> GetOr(FirstTen(reply.foods)[k].description, ""),
              fdcId |-> FirstTen(reply.foods)[k].fdcId]]

\* GET /autocomplete, to the call of requests.get
autocomplete(w) ==
    /\ req[w].op = "autocomplete" /\ req[w].pc = "start"
    /\ req' = [req EXCEPT ![w] =
                  IF ShortQuery(QueryOf(req[w]))
                  THEN Respond(req[w], 200, << <<>> >>)
                  ELSE [req[w] EXCEPT !.pc = "upstream", !.upstream = @ + 1]]
    /\ UNCHANGED storeVars
    /\ UNCHANGED frontVars

\* GET /autocomplete, from the end of requests.get: both the try block and the
\* except branch return jsonify(a list) with status 200
autocomplete_reply(w, reply) ==
    /\ req[w].op = "autocomplete" /\ req[w].pc = "upstream"
    /\ req' = [req EXCEPT ![w] = Respond(req[w], 200, << Suggestions(reply) >>)]
    /\ UNCHANGED storeVars
    /\ UNCHANGED frontVars

\* jsonify(...) of the proxy
JsonPage(handler, json) == [Page(handler, 0, "json", "") EXCEPT !.json = << json >>]

\* GET /api/autocomplete, to the call of requests.get(f'{BACKEND_URL}/autocomplete')
autocomplete_proxy(query) ==
    /\ fpc = "idle"
    /\ \E w \in Workers :
          /\ req[w].op = "idle"
          /\ req' = [req EXCEPT ![w] = Request("autocomplete", "frontend", query, 0)]
    /\ fpc' = "proxying"
    /\ page' = Page("autocomplete_proxy", 0, "waiting", "")
    /\ UNCHANGED session
    /\ UNCHANGED storeVars
    /\ UNCHANGED adds

\* GET /api/autocomplete, requests.get returns: jsonify(response.json())
autocomplete_proxy_response(w) ==
    /\ fpc = "proxying"
    /\ req[w].client = "frontend" /\ req[w].op = "autocomplete"
    /\ req[w].pc = "done"
    /\ page' = JsonPage("autocomplete_proxy", req[w].body[1])
    /\ fpc' = "idle"
    /\ req' = [req EXCEPT ![w] = Idle]
    /\ UNCHANGED session
    /\ UNCHANGED storeVars
    /\ UNCHANGED adds

\* GET /api/autocomplete, requests.get raises: the request never reaches the
\* backend, or the backend's response never reaches the frontend
autocomplete_proxy_raises(w) ==
    /\ fpc = "proxying"
    /\ req[w].client = "frontend" /\ req[w].op = "autocomplete"
    /\ req[w].pc \in {"start", "done"}
    /\ page' = JsonPage("autocomplete_proxy", <<>>)
    /\ fpc' = "idle"
    /\ req' = [req EXCEPT ![w] = Idle]
    /\ UNCHANGED session
    /\ UNCHANGED storeVars
    /\ UNCHANGED adds

(***************************************************************************)
(* The nutrient extractor (src/backend/app.py, extract_nutrients).  A text *)
(* is the sequence of its characters, so that Python's "a in b" on strings *)
(* is the containment of one sequence in the other.                        *)
(***************************************************************************)
\* 'Protein'
NameProtein == <<"P", "r", "o", "t", "e", "i", "n">>

\* 'Total lipid (fat)'
NameFat ==
    <<"T", "o", "t", "a", "l", " ", "l", "i", "p", "i", "d", " ", "(", "f", "a", "t", ")">>

\* 'Carbohydrate, by difference'
NameCarbs ==
    <<"C", "a", "r", "b", "o", "h", "y", "d", "r", "a", "t", "e", ",", " ",
      "b", "y", " ", "d", "i", "f", "f", "e", "r", "e", "n", "c", "e">>

\* 'Energy'
NameEnergy == <<"E", "n", "e", "r", "g", "y">>

\* nutrient_mapping, a dict: its items() come in the order of insertion
nutrient_mapping ==
    << [usda_name |-> NameProtein, our_name |-> "protein"],
       [usda_name |-> NameFat, our_name |-> "fat"],
       [usda_name |-> NameCarbs, our_name |-> "carbs"],
       [usda_name |-> NameEnergy, our_name |-> "calories"] >>

\* usda_name in nutrient_name
Contains(nutrient_name, usda_name) ==
    \E i \in 0..(Len(nutrient_name) - Len(usda_name)) :
       SubSeq(nutrient_name, i + 1, i + Len(usda_name)) = usda_name

\* the last item of nutrient_mapping whose name the nutrient's name contains
LastMatch(nutrient_name) ==
    IF \E k \in DOMAIN nutrient_mapping : Contains(nutrient_name, nutrient_mapping[k].usda_name)
    THEN CHOOSE k \in DOMAIN nutrient_mapping :
            /\ Contains(nutrient_name, nutrient_mapping[k].usda_name)
            /\ \A j \in DOMAIN nutrient_mapping :
                  Contains(nutrient_name, nutrient_mapping[j].usda_name) => j <= k
    ELSE 0

\* the inner loop: the first item of nutrient_mapping whose name the nutrient's
\* name contains (the loop breaks there), 0 when the loop ends without one
FirstMatch(nutrient_name) ==
    IF \E k \in DOMAIN nutrient_mapping : Contains(nutrient_name, nutrient_mapping[k].usda_name)
    THEN CHOOSE k \in DOMAIN nutrient_mapping :
            /\ Contains(nutrient_name, nutrient_mapping[k].usda_name)
            /\ \A j \in DOMAIN nutrient_mapping :
                  Contains(nutrient_name, nutrient_mapping[j].usda_name) => k <= j
    ELSE 0

\* one pass of the outer loop: nutrient.get('nutrientName', ''), the inner loop,
\* and nutrients[our_name] = nutrient.get('value', 0)
ExtractOne(nutrients, nutrient, k) ==
    IF k = 0 THEN nutrients
    ELSE [nutrients EXCEPT ![nutrient_mapping[k].our_name] = GetOr(nutrient.value, 0)]

\* the outer loop from the k-th nutrient on
RECURSIVE ExtractFrom(_, _, _)
ExtractFrom(nutrients, food_nutrients, k) ==
    IF k > Len(food_nutrients) THEN nutrients
    ELSE ExtractFrom(ExtractOne(nutrients, food_nutrients[k],
                                FirstMatch(GetOr(food_nutrients[k].nutrientName, <<>>))),
                     food_nutrients, k + 1)

extract_nutrients(food_nutrients) == ExtractFrom(ZeroNutrients, food_nutrients, 1)

\* a nutrient object of the catalog: nutrientName and value, either may be missing
Nutrient(name, value) == [nutrientName |-> name, value |-> value]

\* 'protein': the matching is case-sensitive
NameLowerProtein == <<"p", "r", "o", "t", "e", "i", "n">>

\* a name that contains two names of nutrient_mapping
NameEnergyFromProtein == NameEnergy \o <<" ", "f", "r", "o", "m", " ">> \o NameProtein

\* 'Energy (kJ)': the catalog lists the energy in kcal and in kJ
NameEnergyKJ == NameEnergy \o <<" ", "(", "k", "J", ")">>

\* the names the catalog sends
NutrientNames ==
    {None, Some(NameProtein), Some(NameFat), Some(NameCarbs), Some(NameEnergy),
     Some(NameEnergyKJ), Some(NameEnergyFromProtein), Some(NameLowerProtein)}

\* the values the catalog sends
NutrientValues == {None, Some(1), Some(2)}

\* the nutrient objects the catalog sends
Nutrients == {Nutrient(name, value) : name \in NutrientNames, value \in NutrientValues}

\* the foodNutrients lists of at most n nutrient objects
RECURSIVE NutrientLists(_)
NutrientLists(n) ==
    IF n = 0 THEN {<<>>}
    ELSE NutrientLists(n - 1)
            \cup {Append(l, x) : l \in {s \in NutrientLists(n - 1) : Len(s) = n - 1},
                                 x \in Nutrients}

(***************************************************************************)
(* The search gateway (src/backend/app.py, search_food and                 *)
(* get_food_details).                                                      *)
(***************************************************************************)
\* the foodNutrients of the catalog's chicken breast
ChickenNutrients ==
    << Nutrient(Some(NameProtein), Some(31)), Nutrient(Some(NameFat), Some(4)),
       Nutrient(Some(NameEnergy), Some(165)) >>

\* a food object of the catalog; every key may be missing
CatalogFood(fdcId, description, brandName, dataType, foodNutrients) ==
    [fdcId |-> fdcId, description |-> description, brandName |-> brandName,
     dataType |-> dataType, foodNutrients |-> foodNutrients]

\* data['foods'] of n foods; the first has no brandName and no dataType, the
\* second no fdcId and no description, the third no foodNutrients
CatalogFoods(n) ==
    [k \in 1..n |->
        CatalogFood(IF k = 2 THEN None ELSE Some(k),
                    IF k = 2 THEN None ELSE Some("food"),
                    IF k = 1 THEN None ELSE Some("brand"),
                    IF k = 1 THEN None ELSE Some("Foundation"),
                    IF k = 3 THEN None ELSE Some(ChickenNutrients))]

\* what the try block raises for each way the call of the catalog ends:
\* requests.get raises Timeout or ConnectionError, raise_for_status raises
\* HTTPError, response.json() raises JSONDecodeError (a RequestException from
\* requests 2.27 on, a plain ValueError before), and a body that is not what the
\* lines after it expect raises AttributeError or TypeError
Raised ==
    {<<"timeout", "Timeout">>, <<"connection error", "ConnectionError">>,
     <<"http error", "HTTPError">>, <<"not json", "JSONDecodeError">>,
     <<"not json", "ValueError">>, <<"not an object", "AttributeError">>,
     <<"foods not a list", "TypeError">>, <<"food not an object", "AttributeError">>}

\* the exceptions that are requests.exceptions.RequestException
RequestExceptions == {"Timeout", "ConnectionError", "HTTPError", "JSONDecodeError"}

\* str(e) of the exception raised
ErrorText(kind) ==
    CASE kind = "timeout" -> "Read timed out."
      [] kind = "connection error" -> "Connection refused"
      [] kind = "http error" -> "403 Client Error: Forbidden"
      [] kind = "not json" -> "Expecting value: line 1 column 1 (char 0)"
      [] OTHER -> "object has no attribute 'get'"

\* the ways the call of the catalog's search ends: an exception, or a body with
\* n foods, with or without totalHits
SearchReplies ==
    {[kind |-> x[1], raised |-> x[2], text |-> ErrorText(x[1]), foods |-> <<>>,
      totalHits |-> None] : x \in Raised}
        \cup {[kind |-> "foods", raised |-> "none", text |-> "",
               foods |-> CatalogFoods(n), totalHits |-> t] :
                 n \in 0..MaxFoods, t \in {None, Some(1523)}}

\* a food of the response: food.get('fdcId'), food.get('description'),
\* food.get('brandName', ''), food.get('dataType', ''), and the nutrients
\* extracted from food.get('foodNutrients', [])
FoodJson(food) ==
    [fdcId |-> food.fdcId, description |-> food.description,
     brandName |-> GetOr(food.brandName, ""), dataType |-> GetOr(food.dataType, ""),
     nutrients |-> extract_nutrients(GetOr(food.foodNutrients, <<>>))]

\* the loop over data.get('foods', [])
Processed(foods) == [k \in DOMAIN foods |-> FoodJson(foods[k])]

\* jsonify({'totalResults': ..., 'currentResults': len(foods), 'foods': foods})
SearchJson(reply, foods) ==
    [totalResults |-> GetOr(reply.totalHits, 0), currentResults |-> Len(foods),
     foods |-> foods]

\* jsonify({'error': ...})
ErrorJson(message) == [error |-> message]

\* the response to an exception no except clause catches: the server's error page
ServerError == [error |-> <<"Internal Server Error">>]

\* the timeout answered as any other failure of the call
SearchStatusNoTimeout(raised) ==
    CASE raised = "none" -> 200
      [] OTHER -> 500

\* the status of the response: the try block returns, except Timeout, except
\* RequestException, or no except clause
SearchStatus(raised) ==
    CASE raised = "none" -> 200
      [] raised = "Timeout" -> 504
      [] OTHER -> 500

\* not query: request.args.get('query', '') is missing or empty
NoQuery(query) == query = ""

\* GET /api/search, to the call of requests.get
search_food(w) ==
    /\ req[w].op = "search_food" /\ req[w].pc = "start"
    /\ req' = [req EXCEPT ![w] =
                  IF NoQuery(QueryOf(req[w]))
                  THEN Respond(req[w], 400, << ErrorJson(<<"Missing query parameter">>) >>)
                  ELSE [req[w] EXCEPT !.pc = "upstream", !.upstream = @ + 1]]
    /\ UNCHANGED storeVars
    /\ UNCHANGED frontVars

\* what search_food returns once the call of the catalog has ended: the try
\* block's return, except Timeout, except RequestException, or no except clause
SearchResponse(reply) ==
    [status |-> SearchStatus(reply.raised),
     body |-> CASE reply.raised = "none" -> SearchJson(reply, Processed(reply.foods))
                [] reply.raised = "Timeout" -> ErrorJson(<<"USDA API request timed out">>)
                [] reply.raised \in RequestExceptions \ {"Timeout"} ->
                      ErrorJson(<<"Error calling USDA API: ", reply.text>>)
                [] OTHER -> ServerError]

\* SearchResponse, computed once for each way the call ends
SearchResponses == [reply \in SearchReplies |-> SearchResponse(reply)]

\* GET /api/search, from the end of requests.get
search_food_reply(w, reply) ==
    /\ req[w].op = "search_food" /\ req[w].pc = "upstream"
    /\ req' = [req EXCEPT ![w] =
                  Respond(req[w], SearchResponses[reply].status,
                          << SearchResponses[reply].body >>)]
    /\ UNCHANGED storeVars
    /\ UNCHANGED frontVars

\* the ways the call of the catalog's detail endpoint ends: an exception, or a
\* food with one of the foodNutrients lists
DetailReplies ==
    {[kind |-> x[1], raised |-> x[2], text |-> ErrorText(x[1]), food |-> <<>>] :
        x \in Raised \ {<<"foods not a list", "TypeError">>,
                        <<"food not an object", "AttributeError">>}}
        \cup {[kind |-> "food", raised |-> "none", text |-> "",
               food |-> << CatalogFood(Some(171477), Some("food"), None,
                                       Some("Foundation"), Some(l)) >>] :
                 l \in NutrientLists(MaxNutrients)}

\* GET /api/food/<fdc_id>, the call of requests.get and what it ends with
get_food_details(w) ==
    /\ req[w].op = "get_food_details" /\ req[w].pc = "start"
    /\ \E reply \in DetailReplies :
          req' = [req EXCEPT ![w] =
                     [req[w] EXCEPT !.pc = "answered", !.upstream = @ + 1,
                                    !.reply = << reply >>]]
    /\ UNCHANGED storeVars
    /\ UNCHANGED frontVars

\* the response of get_food_details to what the call of the catalog ended with
DetailResponse(r, reply) ==
    CASE reply.raised = "none" -> Respond(r, 200, << FoodJson(reply.food[1]) >>)
      [] reply.raised \in RequestExceptions ->
            Respond(r, 500, << ErrorJson(<<"Error fetching food details: ", reply.text>>) >>)
      [] OTHER -> Respond(r, 500, << ServerError >>)

\* GET /api/food/<fdc_id>, from the end of requests.get
get_food_details_return(w) ==
    /\ req[w].op = "get_food_details" /\ req[w].pc = "answered"
    /\ req' = [req EXCEPT ![w] = DetailResponse(req[w], req[w].reply[1])]
    /\ UNCHANGED storeVars
    /\ UNCHANGED frontVars

(***************************************************************************)
(* The system.                                                             *)
(***************************************************************************)
\* indexes the browser sends to /remove-ingredient/<index>
Indexes == (0 - 1)..(MaxIngredients + 1)

\* ids the API clients ask for
MealIds == 1..(MaxMeals + 1)

\* values of datetime.utcnow(): the clock is the wall clock, read by each worker
Times == 1..MaxMeals

\* the clock where no handler reads created_at
FirstTime == 1

\* the q of the autocomplete requests: none, '', and 1, 2 and 7 characters
Queries == {None, Some(""), Some("c"), Some("ch"), Some("chicken")}

\* the fdc_id of the detail requests
ChickenId == 171477

\* the JSON bodies posted while the listing is read
ListBodies == {Some(StewBody), Some(UndividedBody)}

Init ==
    /\ session = <<>>
    /\ page = Page("none", 0, "none", "")
    /\ fpc = "idle"
    /\ meals = {}
    /\ ingredients = {}
    /\ nextMealId = 0
    /\ nextIngId = 0
    /\ req = [w \in Workers |-> Idle]
    /\ given = <<>>
    /\ aborted = {}
    /\ adds = [t \in Tabs |-> NoAdd]

\* the browser's requests, and the backend's work on the meals the frontend posts
NextDraft ==
    \/ \E form \in AddForms : add_ingredient(form)
    \/ \E index \in Indexes : remove_ingredient(index)
    \/ \E form \in UpdateForms : update_meal_info(form)
    \/ clear_meal
    \/ create_meal_page
    \/ save_meal
    \/ \E w \in Workers : save_meal_response(w)
    \/ \E w \in Workers : save_meal_raises(w)
    \/ \E w \in Workers : save_meal_flush(w, FirstTime)
    \/ \E w \in Workers : save_meal_commit(w)
    \/ \E w \in Workers : save_meal_refresh(w)
    \/ \E w \in Workers : meal_to_dict(w)

\* the API clients' requests, and the backend's work on them
NextStore ==
    \/ \E w \in Workers, data \in ApiBodies : api_request(w, "save_meal", data, 0)
    \/ \E w \in Workers, id \in MealIds : api_request(w, "get_meal", <<>>, id)
    \/ \E w \in Workers, id \in MealIds : api_request(w, "delete_meal", <<>>, id)
    \/ \E w \in Workers : api_receive(w)
    \/ \E w \in Workers : save_meal_flush(w, FirstTime)
    \/ \E w \in Workers : save_meal_commit(w)
    \/ \E w \in Workers : save_meal_refresh(w)
    \/ \E w \in Workers : get_meal_query(w)
    \/ \E w \in Workers : meal_to_dict(w)
    \/ \E w \in Workers : delete_meal_query(w)
    \/ \E w \in Workers : delete_meal_commit(w)

\* the API clients that create, delete and list, and the backend's work on their
\* requests
NextList ==
    \/ \E w \in Workers, data \in ListBodies : api_request(w, "save_meal", data, 0)
    \/ \E w \in Workers, id \in MealIds : api_request(w, "delete_meal", <<>>, id)
    \/ \E w \in Workers : api_request(w, "get_meals", <<>>, 0)
    \/ \E w \in Workers : api_receive(w)
    \/ \E w \in Workers, now \in Times : save_meal_flush(w, now)
    \/ \E w \in Workers : save_meal_commit(w)
    \/ \E w \in Workers : save_meal_refresh(w)
    \/ \E w \in Workers : meal_to_dict(w)
    \/ \E w \in Workers : get_meals_query(w)
    \/ \E w \in Workers : get_meals_to_dict(w)
    \/ \E w \in Workers : delete_meal_query(w)
    \/ \E w \in Workers : delete_meal_commit(w)

\* the clients of autocomplete (of the backend's endpoint, and the browser through
\* the frontend's proxy), and the backend's work on their requests
NextComplete ==
    \/ \E w \in Workers, query \in Queries : api_request(w, "autocomplete", query, 0)
    \/ \E w \in Workers : api_receive(w)
    \/ \E query \in Queries : autocomplete_proxy(query)
    \/ \E w \in Workers : autocomplete_proxy_response(w)
    \/ \E w \in Workers : autocomplete_proxy_raises(w)
    \/ \E w \in Workers : autocomplete(w)
    \/ \E w \in Workers, reply \in UpstreamReplies : autocomplete_reply(w, reply)

\* the clients of /api/calculate, and the backend's work on their requests
NextCalc ==
    \/ \E w \in Workers, data \in CalcBodies : api_request(w, "calculate_meal", data, 0)
    \/ \E w \in Workers : api_receive(w)
    \/ \E w \in Workers : calculate_meal(w)

\* the clients of /api/search, and the backend's work on their requests
NextSearch ==
    \/ \E w \in Workers, query \in Queries : api_request(w, "search_food", query, 0)
    \/ \E w \in Workers : api_receive(w)
    \/ \E w \in Workers : search_food(w)
    \/ \E w \in Workers, reply \in SearchReplies : search_food_reply(w, reply)

\* the worker that answers /api/calculate while the browser session runs
CalcWorker == CHOOSE w \in Workers : TRUE

\* the bodies posted to /api/calculate while the browser session runs: those with
\* no ingredient, and the two ingredients of the spec's example
FewCalcBodies ==
    {b \in CalcBodies :
        \/ b = <<>>
        \/ GetOr(b[1].ingredients, <<>>) = <<>>
        \/ b = Some(CalcBody(Some(<<CalcFood(ChickenJson), CalcFood(RiceJson)>>), Some(2)))}

\* every caller of the aggregator: the browser session, which also posts an
\* amount of 0 grams and searches for ingredients, and a client of /api/calculate
NextAggregate ==
    \/ NextDraft
    \/ \E form \in ZeroForms : add_ingredient(form)
    \/ \E answer \in SearchAnswers : search_ingredient(answer)
    \/ \E data \in FewCalcBodies : api_request(CalcWorker, "calculate_meal", data, 0)
    \/ api_receive(CalcWorker)
    \/ calculate_meal(CalcWorker)

\* the bodies posted while the sessions are counted: none, and a meal
SessionBodies == {None, Some(StewBody)}

\* the clients of the four operations of the Meal Store, and the backend's work on
\* their requests
NextSessions ==
    \/ \E w \in Workers, data \in SessionBodies : api_request(w, "save_meal", data, 0)
    \/ \E w \in Workers : api_request(w, "get_meals", <<>>, 0)
    \/ \E w \in Workers, id \in MealIds : api_request(w, "get_meal", <<>>, id)
    \/ \E w \in Workers, id \in MealIds : api_request(w, "delete_meal", <<>>, id)
    \/ \E w \in Workers : api_receive(w)
    \/ \E w \in Workers : save_meal_flush(w, FirstTime)
    \/ \E w \in Workers : save_meal_commit(w)
    \/ \E w \in Workers : save_meal_refresh(w)
    \/ \E w \in Workers : meal_to_dict(w)
    \/ \E w \in Workers : get_meals_query(w)
    \/ \E w \in Workers : get_meals_to_dict(w)
    \/ \E w \in Workers : get_meal_query(w)
    \/ \E w \in Workers : delete_meal_query(w)
    \/ \E w \in Workers : delete_meal_commit(w)

\* the body to /api/calculate with the ingredients and the servings of a draft of
\* 200 g of chicken and 100 g of rice for 2
DraftBody ==
    CalcBody(Some(<<CalcFood(ChickenJson), [CalcFood(RiceJson) EXCEPT !.grams = Some(100)]>>),
             Some(2))

\* the browser session editing and showing its draft, and a client of
\* /api/calculate
NextEquivalence ==
    \/ \E form \in AddForms : add_ingredient(form)
    \/ \E index \in Indexes : remove_ingredient(index)
    \/ \E form \in UpdateForms : update_meal_info(form)
    \/ clear_meal
    \/ create_meal_page
    \/ \E data \in CalcBodies \cup {Some(DraftBody)} :
          api_request(CalcWorker, "calculate_meal", data, 0)
    \/ api_receive(CalcWorker)
    \/ calculate_meal(CalcWorker)

\* a browser that posts /add-ingredient without waiting for the response to the
\* request before
NextTabs ==
    \/ \E t \in Tabs, form \in AddForms : add_ingredient_send(t, form)
    \/ \E t \in Tabs : add_ingredient_handle(t)
    \/ \E t \in Tabs : add_ingredient_receive(t)

\* a client of /api/food/<fdc_id>, and the backend's work on its requests
NextDetail ==
    \/ api_request(CalcWorker, "get_food_details", <<>>, ChickenId)
    \/ api_receive(CalcWorker)
    \/ get_food_details(CalcWorker)
    \/ get_food_details_return(CalcWorker)

Next ==
    \/ NextDraft \/ NextStore \/ NextList \/ NextCalc \/ NextAggregate \/ NextComplete
    \/ NextSearch \/ NextDetail \/ NextSessions \/ NextEquivalence \/ NextTabs

\* the whole system
Spec == Init /\ [][Next]_vars

\* one browser session building and saving meals, no other client of the API
SpecDraft == Init /\ [][NextDraft]_vars

\* the API's clients, two requests at a time, the browser idle
SpecStore == Init /\ [][NextStore]_vars

\* the clients of /api/calculate, two requests at a time
SpecCalc == Init /\ [][NextCalc]_vars

\* the API clients that create, delete and list, two requests at a time
SpecList == Init /\ [][NextList]_vars

\* the clients of autocomplete, two requests at a time
SpecComplete == Init /\ [][NextComplete]_vars

\* one browser session and one client of /api/calculate
SpecAggregate == Init /\ [][NextAggregate]_vars

\* the clients of the four operations of the Meal Store, two requests at a time
SpecSessions == Init /\ [][NextSessions]_vars

\* one browser session editing its draft and one client of /api/calculate
SpecEquivalence == Init /\ [][NextEquivalence]_vars

\* one browser session with two /add-ingredient requests at a time
SpecTabs == Init /\ [][NextTabs]_vars

\* the clients of /api/search, two requests at a time
SpecSearch == Init /\ [][NextSearch]_vars

\* one client of /api/food/<fdc_id>, one request at a time
SpecDetail == Init /\ [][NextDetail]_vars

(***************************************************************************)
(* Claims.                                                                 *)
(***************************************************************************)
MealIdsOf(rows) == {m.id : m \in rows}

\* C1: save() on a draft with no ingredient answers with the validation error, sends
\* nothing to the Meal Store's create, adds no row, and leaves the draft as it was.
C1_EmptyDraftRejected ==
    [][ (save_meal /\ CurrentMeal(session).ingredients = <<>>)
        => /\ page'.kind = "error"
           /\ page'.error = "No ingredients added to meal!"
           /\ req' = req
           /\ fpc' = "idle"
           /\ meals' = meals /\ ingredients' = ingredients
           /\ nextMealId' = nextMealId
           /\ session' = session ]_vars

\* a renamed draft with no ingredient was saved and rejected
C1_Witness ==
    /\ page = Page("save_meal", 0, "error", "No ingredients added to meal!")
    /\ session # <<>>
    /\ CurrentMeal(session).name = "Lunch"
    /\ CurrentMeal(session).ingredients = <<>>

\* C2: when save() of a draft with an ingredient ends, the draft is cleared exactly
\* when the store's create answered with success (201); when the store answers with
\* a failure, when the call raises, and when save() stops before the call, the
\* session holds the draft it held before.
C2_DraftClearedIffCreated ==
    [][ /\ \A w \in Workers :
              save_meal_response(w)
              => session' = IF req[w].status = 201 THEN <<>> ELSE session
        /\ \A w \in Workers : save_meal_raises(w) => session' = session
        /\ save_meal => session' = session ]_vars

\* the store answered a save with a failure and the draft is still there
C2_Witness ==
    /\ page = Page("save_meal", 0, "error", "Error saving meal to backend")
    /\ CurrentMeal(session).ingredients # <<>>
    /\ CurrentMeal(session).name = "Lunch"

\* C3: the draft's serving count and every persisted meal's serving count is at
\* least 1.
C3_ServingsAtLeastOne ==
    /\ CurrentMeal(session).servings >= 1
    /\ \A m \in meals : m.servings >= 1

\* C4: whenever a frontend handler reaches calculate_nutrition (the draft page
\* always, save once the draft has an ingredient), the serving count it divides by
\* is at least 1.
C4_NoDivisionByNonPositiveServings ==
    [][ (create_meal_page \/ (save_meal /\ CurrentMeal(session).ingredients # <<>>))
        => CurrentMeal(session).servings >= 1 ]_vars

\* C5: create is atomic.  No row of a create that was rolled back is in the tables;
\* a Meal row flushed but not committed is not in the tables; a Meal row in the
\* tables has all the Ingredient rows of the body it was created from and every
\* Ingredient row has its Meal row; and no response to a get shows a meal whose
\* create was rolled back or has not committed, or, while the meal is stored, fewer
\* ingredients than it was created with.
C5_CreateAtomic ==
    /\ \A id \in aborted :
          /\ id \notin MealIdsOf(meals)
          /\ \A r \in ingredients : r.meal_id # id
    /\ \A w \in Workers :
          (req[w].op = "save_meal" /\ req[w].pc = "commit")
          => /\ req[w].row[1].id \notin MealIdsOf(meals)
             /\ \A r \in ingredients : r.meal_id # req[w].row[1].id
    /\ \A m \in meals :
          /\ m.id \in DOMAIN given
          /\ Cardinality({r \in ingredients : r.meal_id = m.id})
                 = Len(given[m.id].ingredients)
          /\ \A k \in DOMAIN given[m.id].ingredients :
                \E r \in ingredients :
                   /\ r.meal_id = m.id
                   /\ r.description = given[m.id].ingredients[k].description
                   /\ r.grams = given[m.id].ingredients[k].grams
    /\ \A r \in ingredients : r.meal_id \in MealIdsOf(meals)
    /\ \A w \in Workers :
          (req[w].op = "get_meal" /\ req[w].pc = "done" /\ req[w].status = 200)
          => /\ req[w].body[1].id \notin aborted
             /\ req[w].body[1].id \in DOMAIN given
             /\ req[w].body[1].id \in MealIdsOf(meals)
                => Len(req[w].body[1].ingredients)
                       = Len(given[req[w].body[1].id].ingredients)

\* a create whose second Ingredient row cannot be inserted was rolled back, another
\* create committed, and a get of the rolled-back id answered not-found
C5_Witness ==
    /\ aborted # {}
    /\ meals # {}
    /\ nextIngId > Cardinality(ingredients)
    /\ \E w \in Workers :
          /\ req[w].op = "get_meal" /\ req[w].pc = "done"
          /\ req[w].id \in aborted
          /\ req[w].status = 404

\* C6: a delete that answers with success leaves no Ingredient row of the meal and
\* no Meal row with its id, and every other row of both tables as it was; a meal
\* that was deleted stays deleted, and a get of its id that starts afterwards does
\* not find it.
C6_DeleteCascades ==
    [][ \A w \in Workers :
          /\ (delete_meal_commit(w) /\ req'[w].status = 200)
             => LET id == req[w].row[1].id
                IN  /\ \A r \in ingredients' : r.meal_id # id
                    /\ \A m \in meals' : m.id # id
                    /\ meals' = {m \in meals : m.id # id}
                    /\ ingredients' = {r \in ingredients : r.meal_id # id}
          /\ (req[w].id \in DOMAIN given /\ req[w].id \notin MealIdsOf(meals))
             => /\ req[w].id \notin MealIdsOf(meals')
                /\ get_meal_query(w)
                   => (req'[w].pc = "done" /\ req'[w].status \in {404, 500}) ]_vars

\* one of two stored meals was deleted with success and the other is still stored
\* with its ingredients
C6_Witness ==
    \E w \in Workers :
       /\ req[w].op = "delete_meal" /\ req[w].pc = "done" /\ req[w].status = 200
       /\ req[w].id \notin MealIdsOf(meals)
       /\ \E m \in meals : \E r \in ingredients : r.meal_id = m.id

\* C7: a get or delete of an id no Meal row has answers 404 (500 only when the
\* query itself fails), never with success, and changes no row; an id a row has
\* is never answered 404; and a delete that answers 500 leaves both tables as
\* they were.
C7_NotFound ==
    [][ \A w \in Workers :
          /\ ((get_meal_query(w) \/ delete_meal_query(w))
                 /\ req[w].id \notin MealIdsOf(meals))
             => /\ req'[w].pc = "done"
                /\ req'[w].status \in {404, 500}
                /\ meals' = meals /\ ingredients' = ingredients
          /\ ((get_meal_query(w) \/ delete_meal_query(w))
                 /\ req[w].id \in MealIdsOf(meals))
             => ~(req'[w].pc = "done" /\ req'[w].status = 404)
          /\ (delete_meal_commit(w) /\ req'[w].status = 500)
             => (meals' = meals /\ ingredients' = ingredients) ]_vars

\* with a meal stored, a delete of an id no row has was answered 404
C7_Witness ==
    /\ meals # {}
    /\ \E w \in Workers :
          /\ req[w].op = "delete_meal" /\ req[w].pc = "done" /\ req[w].status = 404
          /\ req[w].id \notin MealIdsOf(meals)

\* C8: a get of a stored meal returns the name, servings, total and per-serving
\* values its create was given, and the ingredients it was given (description,
\* grams, per-100g nutrients) in the order they were given.
C8_RoundTrip ==
    \A w \in Workers :
       (/\ req[w].op = "get_meal" /\ req[w].pc = "done" /\ req[w].status = 200
        /\ req[w].id \in MealIdsOf(meals))
       => LET got == req[w].body[1]
              data == given[got.id]
          IN  /\ data.name # <<>> => got.name = data.name[1]
              /\ data.servings # <<>> => got.servings = data.servings[1]
              /\ got.nutritionTotal = data.nutritionTotal
              /\ got.nutritionPerServing = data.nutritionPerServing
              /\ Len(got.ingredients) = Len(data.ingredients)
              /\ \A k \in DOMAIN got.ingredients :
                    /\ got.ingredients[k].description = data.ingredients[k].description
                    /\ got.ingredients[k].grams = data.ingredients[k].grams
                    /\ got.ingredients[k].nutrients = data.ingredients[k].nutrients

\* C9: removeIngredient(index) with 0 <= index < length gives the list without the
\* entry at that position, the others in their order; with any other index it
\* answers with the redirect and the draft's list, name and servings are the same.
C9_RemoveAtIndex ==
    [][ \A index \in Indexes :
          remove_ingredient(index)
          => LET old == CurrentMeal(session)
                 new == CurrentMeal(session')
             IN  IF 0 <= index /\ index < Len(old.ingredients)
                 THEN new.ingredients =
                         SubSeq(old.ingredients, 1, index)
                            \o SubSeq(old.ingredients, index + 2, Len(old.ingredients))
                 ELSE /\ new = old
                      /\ page'.kind = "redirect" ]_vars

\* a removal at an index past the end of a draft that has ingredients
C9_Witness ==
    /\ page.handler = "remove_ingredient"
    /\ page.index > Len(CurrentMeal(session).ingredients)
    /\ CurrentMeal(session).ingredients # <<>>
    /\ CurrentMeal(session).name = "Lunch"

\* C10: addIngredient(item) gives the list it found with item appended as the last
\* entry, also when an entry with the same fdcId is in the list.
C10_AddAppends ==
    [][ \A form \in AddForms :
          (add_ingredient(form) /\ IngredientOf(form) # <<>>)
          => LET old == CurrentMeal(session).ingredients
                 new == CurrentMeal(session').ingredients
             IN  /\ Len(new) = Len(old) + 1
                 /\ new[Len(new)] = IngredientOf(form)[1]
                 /\ SubSeq(new, 1, Len(old)) = old ]_vars

\* the same food was added twice and is in the draft twice
C10_Witness ==
    /\ page = Page("add_ingredient", 0, "redirect", "")
    /\ Len(CurrentMeal(session).ingredients) = 2
    /\ CurrentMeal(session).ingredients[1].fdcId
           = CurrentMeal(session).ingredients[2].fdcId

\* C11: clear() leaves the Empty draft whatever the draft was: the draft read after
\* it, and the draft the next draft page shows, has the name "My Meal", 1 serving
\* and no ingredients.
C11_ClearGivesEmpty ==
    [][ /\ clear_meal
           => /\ CurrentMeal(session') = DefaultMeal
              /\ CurrentMeal(session').name = "My Meal"
              /\ CurrentMeal(session').servings = 1
              /\ CurrentMeal(session').ingredients = <<>>
        /\ (create_meal_page /\ page.handler = "clear_meal")
           => page'.meal = << DefaultMeal >> ]_vars

\* the draft was cleared, and the draft read after it is the Empty draft
C11_Witness ==
    /\ page = Page("clear_meal", 0, "redirect", "")
    /\ CurrentMeal(session) = DefaultMeal

Fields == {"protein", "fat", "carbs", "calories"}

Abs(n) == IF n < 0 THEN 0 - n ELSE n

RECURSIVE ExactSum(_, _)
\* the sum over the ingredients of (grams / 100) * per-100g value of field f, exact,
\* in ten-thousandths
ExactSum(amounts, f) ==
    IF amounts = <<>> THEN 0
    ELSE amounts[1].grams * amounts[1].nutrients[f] + ExactSum(Tail(amounts), f)

\* b is a permutation of a
IsPermutation(a, b) ==
    /\ Len(a) = Len(b)
    /\ \E p \in Permutations(DOMAIN a) : \A i \in DOMAIN a : b[i] = a[p[i]]

\* the calculate endpoint answered worker w's request with a result
Calculated(w) ==
    req[w].op = "calculate_meal" /\ req[w].pc = "done" /\ req[w].status = 200

\* the amounts and the serving count of the request worker w answered
CalculatedAmounts(w) == CalcAmounts(GetOr(req[w].data[1].ingredients, <<>>))
CalculatedServings(w) == GetOr(req[w].data[1].servings, 1)

\* C12 as claimed: every field of the total is the exact sum of
\* (grams / 100) * per-100g value (to the 2 decimals of the output), and two lists
\* that are permutations of each other have the same total.
C12_TotalIsSumAnyOrder ==
    /\ \A w \in Workers :
          Calculated(w)
          => \A f \in Fields :
                Abs(100 * req[w].body[1].total[f] - ExactSum(CalculatedAmounts(w), f)) <= 50
    /\ \A w1, w2 \in Workers :
          (/\ Calculated(w1) /\ Calculated(w2)
           /\ IsPermutation(CalculatedAmounts(w1), CalculatedAmounts(w2)))
          => req[w1].body[1].total = req[w2].body[1].total

\* C12 amended: every field of the total is within 0.005 of the exact sum, and the
\* totals of two lists that are permutations of each other differ by at most 0.01
\* in a field.
C12_TotalNearSum ==
    /\ \A w \in Workers :
          Calculated(w)
          => \A f \in Fields :
                Abs(100 * req[w].body[1].total[f] - ExactSum(CalculatedAmounts(w), f)) <= 50
    /\ \A w1, w2 \in Workers :
          (/\ Calculated(w1) /\ Calculated(w2)
           /\ IsPermutation(CalculatedAmounts(w1), CalculatedAmounts(w2)))
          => \A f \in Fields :
                Abs(req[w1].body[1].total[f] - req[w2].body[1].total[f]) <= 1

\* two lists of three ingredients, one a permutation of the other, were aggregated
\* and their totals differ
C12_Witness ==
    \E w1, w2 \in Workers :
       /\ Calculated(w1) /\ Calculated(w2)
       /\ Len(CalculatedAmounts(w1)) = 3
       /\ IsPermutation(CalculatedAmounts(w1), CalculatedAmounts(w2))
       /\ req[w1].body[1].total # req[w2].body[1].total

\* n / d for d > 0, rounded to the nearest integer, a tie as the mode says
RoundRatio(n, d, mode) ==
    LET q == n \div d
        r == n % d
    IN  IF 2 * r < d THEN q
        ELSE IF 2 * r > d THEN q + 1
        ELSE CASE mode = "half-up" -> q + 1
               [] mode = "half-down" -> q
               [] mode = "half-even" -> IF q % 2 = 0 THEN q ELSE q + 1
               [] mode = "half-odd" -> IF q % 2 = 1 THEN q ELSE q + 1

TieModes == {"half-up", "half-down", "half-even", "half-odd"}

\* Python's round(total / servings, 2) of a total of the output, in hundredths
RoundOfQuotient(total, servings) ==
    Round2(FloatDivInt(FloatOfRatio(total, 100), servings))

\* C13 as claimed: every field of perServing is the same field of the total output
\* divided by servings and rounded to 2 decimal places, by Python's round or by
\* exact division with one rule for ties.
C13_PerServingIsTotalOverServings ==
    \A w \in Workers :
       Calculated(w)
       => LET out == req[w].body[1]
          IN  \/ \A f \in Fields :
                    out.perServing[f] = RoundOfQuotient(out.total[f], out.servings)
              \/ \E mode \in TieModes :
                    \A f \in Fields :
                       out.perServing[f] = RoundRatio(out.total[f], out.servings, mode)

\* C13 amended: every field of perServing is within 0.005 of the exact sum divided
\* by servings, and less than 0.01 away from the same field of the total output
\* divided by servings.
C13_PerServingNearTotalOverServings ==
    \A w \in Workers :
       Calculated(w)
       => LET out == req[w].body[1]
          IN  \A f \in Fields :
                 /\ Abs(100 * out.servings * out.perServing[f]
                           - ExactSum(CalculatedAmounts(w), f)) <= 50 * out.servings
                 /\ Abs(out.servings * out.perServing[f] - out.total[f]) < out.servings

\* a list was aggregated for 2 servings and a field of perServing is not the total
\* output divided by 2 and rounded by Python's round
C13_Witness ==
    \E w \in Workers :
       /\ Calculated(w)
       /\ req[w].body[1].servings = 2
       /\ \E f \in Fields :
             req[w].body[1].perServing[f]
                # RoundOfQuotient(req[w].body[1].total[f], 2)

\* the two ingredients of the spec's example: 200 g with protein 31, fat 3.57,
\* carbs 0, calories 165 and 150 g with protein 2.7, fat 0.3, carbs 28, calories 130
ExampleAmounts == CalcAmounts(<<CalcFood(ChickenJson), CalcFood(RiceJson)>>)

\* the example was posted with servings 2 and answered
ExampleCalculated(w) ==
    /\ Calculated(w)
    /\ CalculatedAmounts(w) = ExampleAmounts
    /\ CalculatedServings(w) = 2

\* C14 as claimed: the example gives total {66.05, 7.59, 42.0, 525.0} and
\* perServing {33.03, 3.8, 21.0, 262.5}.
C14_Example ==
    \A w \in Workers :
       ExampleCalculated(w)
       => /\ req[w].body[1].total =
                [protein |-> 6605, fat |-> 759, carbs |-> 4200, calories |-> 52500]
          /\ req[w].body[1].perServing =
                [protein |-> 3303, fat |-> 380, carbs |-> 2100, calories |-> 26250]

\* C14 amended: the example gives total {66.05, 7.59, 42.0, 525.0} and
\* perServing {33.02, 3.79, 21.0, 262.5}.
C14_ExampleAsComputed ==
    \A w \in Workers :
       ExampleCalculated(w)
       => /\ req[w].body[1].total =
                [protein |-> 6605, fat |-> 759, carbs |-> 4200, calories |-> 52500]
          /\ req[w].body[1].perServing =
                [protein |-> 3302, fat |-> 379, carbs |-> 2100, calories |-> 26250]

\* the example was posted and answered with a result for 2 servings
C14_Witness ==
    \E w \in Workers :
       /\ ExampleCalculated(w)
       /\ req[w].body[1].servings = 2
       /\ req[w].body[1].total.calories = 52500

\* the body of worker w's request to /api/calculate names no ingredient: no JSON,
\* no 'ingredients' key, or an empty list
CalculateWithoutIngredients(w) ==
    /\ req[w].op = "calculate_meal" /\ req[w].pc = "start"
    /\ (req[w].data = <<>> \/ GetOr(req[w].data[1].ingredients, <<>>) = <<>>)

\* what the aggregator gives for an empty list and servings # 0
ZeroNutrition == [total |-> ZeroNutrients, perServing |-> ZeroNutrients]

C16_GramsPositive ==
    /\ \A k \in DOMAIN CurrentMeal(session).ingredients :
          CurrentMeal(session).ingredients[k].grams > 0
    /\ \A w \in Workers :
          Calculated(w)
          => \A k \in DOMAIN CalculatedAmounts(w) : CalculatedAmounts(w)[k].grams > 0
    /\ \A row \in ingredients : row.grams > 0

\* C17: every meal of the store has servings > 0, and each of its per-serving values
\* is its total value divided by its servings, to two decimal places (at most half
\* a hundredth away).
C17_StoredPerServingIsTotalOverServings ==
    \A m \in meals :
       /\ m.servings > 0
       /\ \A f \in Fields :
             2 * Abs(m.servings * m.per_serving[f] - m.total[f]) <= m.servings

\* the Meal objects the query of a listing returned
Selected(r) == IF r.pc = "load" THEN r.row ELSE <<>>

\* C18: the query of list() returns every meal of the store exactly once, the most
\* recently created first; the response has the meals in that order, each with all
\* the ingredients it was created with, and its total is the number of meals it
\* returns.
C18_ListReturnsAllNewestFirst ==
    [][ \A w \in Workers :
           /\ (get_meals_query(w) /\ req'[w].status # 500)
              => LET rows == Selected(req'[w])
                 IN  /\ {rows[k] : k \in DOMAIN rows} = meals
                     /\ Len(rows) = Cardinality(meals)
                     /\ \A i, j \in DOMAIN rows :
                           i < j => rows[i].created_at >= rows[j].created_at
                     /\ rows = <<>> => req'[w].body = << Listing(<<>>, <<>>) >>
           /\ (get_meals_to_dict(w) /\ req'[w].status = 200)
              => LET out == req'[w].body[1]
                     rows == req[w].row
                 IN  /\ out.total = Len(out.meals)
                     /\ Len(out.meals) = Len(rows)
                     /\ \A k \in DOMAIN rows :
                           /\ out.meals[k].id = rows[k].id
                           /\ Len(out.meals[k].ingredients)
                                  = Len(given[rows[k].id].ingredients) ]_vars

\* the dict a step of the listing has just added for its k-th Meal object
AddedDict(r, k) == IF r.pc = "done" THEN r.body[1].meals[k] ELSE r.dicts[k]

\* the dicts a listing holds
ListedDicts(r) == IF r.pc = "done" THEN r.body[1].meals ELSE r.dicts

\* C18 as the code has it: the query of list() returns every meal that is in the
\* store when it runs, exactly once, the most recently created first; the response
\* has the meals in that order and its total is their number; each meal has the
\* ingredients the store holds for it when the listing converts it: all those it
\* was created with, or none when a concurrent delete removed the meal after the
\* query.
C18_ListReturnsSelectedNewestFirst ==
    [][ \A w \in Workers :
           /\ (get_meals_query(w) /\ req'[w].status # 500)
              => LET rows == Selected(req'[w])
                 IN  /\ {rows[k] : k \in DOMAIN rows} = meals
                     /\ Len(rows) = Cardinality(meals)
                     /\ \A i, j \in DOMAIN rows :
                           i < j => rows[i].created_at >= rows[j].created_at
                     /\ rows = <<>> => req'[w].body = << Listing(<<>>, <<>>) >>
           /\ (get_meals_to_dict(w) /\ req'[w].status # 500)
              => LET rows == req[w].row
                     k == Len(req[w].dicts) + 1
                     added == AddedDict(req'[w], k)
                 IN  /\ Len(ListedDicts(req'[w])) = k
                     /\ \A j \in 1..(k - 1) : ListedDicts(req'[w])[j] = req[w].dicts[j]
                     /\ added.id = rows[k].id
                     /\ added.createdAt = rows[k].created_at
                     /\ Len(added.ingredients)
                           = IF rows[k] \in meals
                             THEN Len(given[rows[k].id].ingredients) ELSE 0
                     /\ req'[w].pc = "done"
                        => /\ req'[w].status = 200
                           /\ k = Len(rows)
                           /\ req'[w].body[1].total = Len(req'[w].body[1].meals) ]_vars

\* a listing answered with two meals of different timestamps, the later one first
\* although it was created first, each with its ingredients
C18_Witness ==
    \E w \in Workers :
       /\ req[w].op = "get_meals" /\ req[w].pc = "done" /\ req[w].status = 200
       /\ req[w].body[1].total = 2
       /\ req[w].body[1].meals[1].createdAt > req[w].body[1].meals[2].createdAt
       /\ req[w].body[1].meals[1].id < req[w].body[1].meals[2].id
       /\ \A k \in 1..2 : req[w].body[1].meals[k].ingredients # <<>>

\* worker w handles an autocomplete request whose query has fewer than 2 characters
ShortAutocomplete(w) == req[w].op = "autocomplete" /\ Len(QueryOf(req[w])) < 2

\* C19: an autocomplete request whose query has fewer than 2 characters (none, '',
\* one character) makes no call to the catalog and is answered with the empty
\* list, by the backend and by the frontend's proxy.
C19_ShortQueryNoUpstream ==
    /\ [](\A w \in Workers :
            ShortAutocomplete(w)
            => /\ req[w].upstream = 0
               /\ req[w].pc \in {"start", "done"}
               /\ req[w].pc = "done" => req[w].status = 200 /\ req[w].body = << <<>> >>)
    /\ [][ \A w \in Workers :
              /\ (autocomplete_proxy_response(w) /\ ShortAutocomplete(w))
                 => page' = JsonPage("autocomplete_proxy", <<>>)
              /\ (autocomplete_proxy_raises(w) /\ ShortAutocomplete(w))
                 => page' = JsonPage("autocomplete_proxy", <<>>) ]_vars

\* the proxy has answered with the empty list while the backend has answered a
\* query of one character and a missing query without a call to the catalog
C19_Witness ==
    /\ page = JsonPage("autocomplete_proxy", <<>>)
    /\ \E w1, w2 \in Workers :
          /\ req[w1].op = "autocomplete" /\ req[w1].pc = "done"
          /\ req[w1].data = Some("c") /\ req[w1].upstream = 0
          /\ req[w2].op = "autocomplete" /\ req[w2].pc = "done"
          /\ req[w2].data = None /\ req[w2].upstream = 0

\* the call to the catalog failed: timeout, network failure, 4xx/5xx, malformed body
UpstreamFailed(reply) == reply.kind \in FailureKinds

\* C20: every autocomplete response, of the backend and of the proxy, is a success
\* (200) with a list of at most 10 suggestions, whatever the query and whatever
\* the catalog answers; the list is empty when the call to the catalog failed.
C20_AutocompleteNeverFails ==
    /\ [](\A w \in Workers :
            (req[w].op = "autocomplete" /\ req[w].pc = "done")
            => /\ req[w].status = 200
               /\ req[w].body # <<>>
               /\ Len(req[w].body[1]) <= 10)
    /\ [](page.handler = "autocomplete_proxy"
          => /\ page.kind \in {"waiting", "json"}
             /\ page.kind = "json" => page.json # <<>> /\ Len(page.json[1]) <= 10)
    /\ [][ \A w \in Workers : \A reply \in UpstreamReplies :
              (autocomplete_reply(w, reply) /\ UpstreamFailed(reply))
              => req'[w].status = 200 /\ req'[w].body = << <<>> >> ]_vars

\* the catalog returned more than 10 foods and the proxy passed on the 10
\* suggestions of the backend, while another request's call to the catalog failed
\* and was answered with the empty list
C20_Witness ==
    /\ page.handler = "autocomplete_proxy" /\ page.kind = "json"
    /\ Len(page.json[1]) = 10
    /\ \E w \in Workers :
          /\ req[w].op = "autocomplete" /\ req[w].pc = "done"
          /\ req[w].upstream = 1 /\ req[w].body = << <<>> >>

\* the query parameter of worker w's search request is missing or empty
SearchWithoutQuery(w) == req[w].op = "search_food" /\ req[w].data \in {None, Some("")}

\* C21: a search without a query (missing or empty) is answered 400 and makes no
\* call to the catalog; a call that times out is answered 504; a call that ends in
\* any other failure is answered 500, with the error's text when the connection
\* failed or the catalog answered 4xx/5xx; 200 is the answer exactly when the
\* catalog answered with foods, and then currentResults is the number of foods
\* the catalog returned, each of them in the response.
C21_SearchOutcomes ==
    /\ [](\A w \in Workers :
            SearchWithoutQuery(w)
            => /\ req[w].upstream = 0
               /\ req[w].pc \in {"start", "done"}
               /\ req[w].pc = "done" => req[w].status = 400)
    /\ [][ \A w \in Workers : \A reply \in SearchReplies :
              search_food_reply(w, reply)
              => /\ ~SearchWithoutQuery(w) /\ req'[w].pc = "done"
                 /\ reply.kind = "timeout" => req'[w].status = 504
                 /\ reply.kind \notin {"timeout", "foods"} => req'[w].status = 500
                 /\ reply.kind \in {"connection error", "http error"}
                    => req'[w].body = << [error |-> <<"Error calling USDA API: ",
                                                      reply.text>>] >>
                 /\ req'[w].status = 200 <=> reply.kind = "foods"
                 /\ reply.kind = "foods"
                    => /\ req'[w].body[1].currentResults = Len(reply.foods)
                       /\ Len(req'[w].body[1].foods) = Len(reply.foods)
                       /\ \A k \in DOMAIN reply.foods :
                             req'[w].body[1].foods[k].fdcId = reply.foods[k].fdcId ]_vars

\* one search answered 200 with the 11 foods the catalog returned, another
\* answered 500 with the text of the catalog's 403
C21_Witness ==
    \E w1, w2 \in Workers :
       /\ req[w1].op = "search_food" /\ req[w1].pc = "done" /\ req[w1].status = 200
       /\ req[w1].body[1].currentResults = 11
       /\ req[w2].op = "search_food" /\ req[w2].pc = "done" /\ req[w2].status = 500
       /\ req[w2].body = << [error |-> <<"Error calling USDA API: ",
                                         "403 Client Error: Forbidden">>] >>

\* the table of the nutrient extractor, in its order
TableFields == <<"protein", "fat", "carbs", "calories">>
TableNames == <<NameProtein, NameFat, NameCarbs, NameEnergy>>

\* the k-th entry of the table is the first whose name the record's name contains
Updates(nutrient, k) ==
    /\ Contains(GetOr(nutrient.nutrientName, <<>>), TableNames[k])
    /\ \A j \in 1..(k - 1) : ~Contains(GetOr(nutrient.nutrientName, <<>>), TableNames[j])

\* the last record of the list that updates the k-th entry, 0 when there is none
LastUpdating(records, k) ==
    IF \E i \in DOMAIN records : Updates(records[i], k)
    THEN CHOOSE i \in DOMAIN records :
            /\ Updates(records[i], k)
            /\ \A j \in DOMAIN records : Updates(records[j], k) => j <= i
    ELSE 0

\* the records and the result of the extraction in worker w's answered detail request
Extracted(w) == req[w].op = "get_food_details" /\ req[w].pc = "done" /\ req[w].status = 200
RawRecords(w) == GetOr(req[w].reply[1].food[1].foodNutrients, <<>>)

\* C23: the nutrients extracted from a list of raw records have exactly the fields
\* protein, fat, carbs, calories; a record updates the first entry of the table
\* (Protein, Total lipid (fat), Carbohydrate, by difference, Energy) whose name
\* its name contains, and no other; a field no record updates is 0, and a field
\* several records update has the value of the last of them in the list (0 when
\* that record has no value).
C23_ExtractNutrients ==
    \A w \in Workers :
       Extracted(w)
       => /\ DOMAIN req[w].body[1].nutrients = {"protein", "fat", "carbs", "calories"}
          /\ \A i \in DOMAIN RawRecords(w) :
                Cardinality({k \in 1..4 : Updates(RawRecords(w)[i], k)}) <= 1
          /\ \A k \in 1..4 :
                req[w].body[1].nutrients[TableFields[k]]
                   = IF LastUpdating(RawRecords(w), k) = 0 THEN 0
                     ELSE GetOr(RawRecords(w)[LastUpdating(RawRecords(w), k)].value, 0)

\* a food with a record 'Energy from Protein' of value 1 and then a record
\* 'Protein' of value 2: protein is 2, and calories, fat and carbs are 0
C23_Witness ==
    \E w \in Workers :
       /\ Extracted(w)
       /\ RawRecords(w) = << Nutrient(Some(NameEnergyFromProtein), Some(1)),
                             Nutrient(Some(NameProtein), Some(2)) >>
       /\ req[w].body[1].nutrients
             = [protein |-> 2, fat |-> 0, carbs |-> 0, calories |-> 0]

\* the step is one of the handlers that edit or show the draft
DraftStep ==
    \/ \E form \in AddForms : add_ingredient(form)
    \/ \E index \in Indexes : remove_ingredient(index)
    \/ \E form \in UpdateForms : update_meal_info(form)
    \/ clear_meal
    \/ create_meal_page

\* the step is the commit of the meal the frontend's save_meal posted, by worker w
CommitOfSave(w) ==
    /\ req[w].op = "save_meal" /\ req[w].client = "frontend" /\ req[w].pc = "commit"
    /\ save_meal_commit(w)

\* C22: add_ingredient, remove_ingredient, update_meal_info and clear_meal (and the
\* draft page) leave the meals and ingredients tables as they are; the tables
\* change only in the commit of a meal that save_meal posted, which adds exactly
\* one meal row and the rows of its ingredients and removes nothing; and when
\* save_meal reports success, exactly one stored meal has the id the backend
\* returned.
C22_DraftNotPersistedBeforeSave ==
    /\ [][DraftStep => meals' = meals /\ ingredients' = ingredients]_vars
    /\ [][ (meals' # meals \/ ingredients' # ingredients)
           => \E w \in Workers :
                 /\ CommitOfSave(w)
                 /\ meals \subseteq meals' /\ ingredients \subseteq ingredients'
                 /\ Cardinality(meals' \ meals) = 1
                 /\ \A m \in meals' \ meals :
                       /\ m.id \notin {x.id : x \in meals}
                       /\ \A i \in ingredients' \ ingredients : i.meal_id = m.id
                 /\ Cardinality(ingredients' \ ingredients)
                       = Len(req[w].data[1].ingredients) ]_vars
    /\ [][ \A w \in Workers :
              (save_meal_response(w) /\ page'.kind = "redirect_meals")
              => /\ req[w].status = 201 /\ req[w].body # <<>>
                 /\ Cardinality({m \in meals : m.id = req[w].body[1].id}) = 1 ]_vars

\* the draft was edited and saved: save_meal has reported success, the draft is
\* empty again, and the tables hold one meal and its two ingredients
C22_Witness ==
    /\ page.handler = "save_meal" /\ page.kind = "redirect_meals"
    /\ session = <<>>
    /\ Cardinality(meals) = 1
    /\ Cardinality(ingredients) = 2

\* the operations of the Meal Store
StoreOps == {"save_meal", "get_meals", "get_meal", "delete_meal"}

\* the database sessions that are open
OpenSessions == {w \in Workers : req[w].db = "open"}

\* C24: a request of the Meal Store (create, list, get, delete) that has passed
\* its first statement works on a session of its own, and every response (201,
\* 200, 404, 500) leaves that session closed; a create without a body is answered
\* 400 before a session is opened; so when no request is being handled, no
\* session is open.
C24_SessionsClosed ==
    /\ [](\A w \in Workers :
            /\ (req[w].op \in StoreOps /\ req[w].pc \notin {"start", "done"})
               => req[w].db = "open"
            /\ (req[w].op \in StoreOps /\ req[w].pc = "done")
               => req[w].db = IF req[w].status = 400 THEN "none" ELSE "closed"
            /\ req[w].op \notin StoreOps => req[w].db = "none")
    /\ []((\A w \in Workers : req[w].pc \in {"idle", "done"}) => OpenSessions = {})
    /\ [][ \A w \in Workers :
              (req[w].db = "open" /\ req'[w].pc = "done") => req'[w].db = "closed" ]_vars

\* a create answered 201 and a delete answered 404, each with its session closed,
\* and no session open
C24_Witness ==
    /\ OpenSessions = {}
    /\ \E w1, w2 \in Workers :
          /\ req[w1].op = "save_meal" /\ req[w1].pc = "done" /\ req[w1].status = 201
          /\ req[w1].db = "closed"
          /\ req[w2].op = "delete_meal" /\ req[w2].pc = "done" /\ req[w2].status = 404
          /\ req[w2].db = "closed"

\* worker w has answered a request to calculate whose ingredients all carry grams
\* and whose servings is at least 1
CalculatedWithGrams(w) ==
    /\ Calculated(w)
    /\ \A k \in DOMAIN req[w].data[1].ingredients[1] :
          req[w].data[1].ingredients[1][k].grams # None
    /\ CalculatedServings(w) >= 1

\* the page shows the draft with the nutrition calculate_nutrition returned for it,
\* and the draft has the amounts and the servings of the request worker w answered
SameAsDraft(w) ==
    /\ page.handler = "create_meal_page" /\ page.kind = "create_meal"
    /\ page.meal # <<>>
    /\ Amounts(page.meal[1].ingredients) = CalculatedAmounts(w)
    /\ page.meal[1].servings = CalculatedServings(w)

\* C25: for a non-empty list of ingredients that carry grams and the four
\* nutrients, and servings >= 1, calculate_meal answers the total and the
\* perServing that calculate_nutrition returns for the same list and servings,
\* and that the draft page shows for a draft of the same list and servings.
C25_AggregatorsEquivalent ==
    \A w \in Workers :
       /\ CalculatedWithGrams(w)
          => /\ ~Nutrition(CalculatedAmounts(w), CalculatedServings(w)).raised
             /\ req[w].body[1].total
                   = Nutrition(CalculatedAmounts(w), CalculatedServings(w)).total
             /\ req[w].body[1].perServing
                   = Nutrition(CalculatedAmounts(w), CalculatedServings(w)).perServing
       /\ (CalculatedWithGrams(w) /\ SameAsDraft(w))
          => /\ page.nutrition[1].total = req[w].body[1].total
             /\ page.nutrition[1].perServing = req[w].body[1].perServing

\* the draft page shows 200 g of chicken and 100 g of rice for 2 servings, and
\* /api/calculate has answered the same list and servings with the same total
\* (64.7 g protein) and the same perServing (32.35 g)
C25_Witness ==
    \E w \in Workers :
       /\ CalculatedWithGrams(w) /\ SameAsDraft(w)
       /\ Len(page.meal[1].ingredients) = 2
       /\ req[w].body[1].total.protein = 6470
       /\ page.nutrition[1].total.protein = 6470
       /\ req[w].body[1].perServing.protein = 3235
       /\ page.nutrition[1].perServing = req[w].body[1].perServing

\* both requests to add an ingredient have completed and each has added its item
BothAdded == \A t \in Tabs : adds[t].pc = "completed" /\ adds[t].set

\* the item of the request, and how often the draft lists it
AddedItem(t) == IngredientOf(adds[t].form[1])[1]
Listed(item) ==
    Cardinality({k \in DOMAIN CurrentMeal(session).ingredients :
                    CurrentMeal(session).ingredients[k] = item})

\* C26 as claimed: when two requests to add an ingredient of the same session have
\* completed, handled one after the other or interleaved, the draft lists the
\* items of both (an item both have added is listed twice).
C26_NoLostUpdate ==
    BothAdded
    => \A t \in Tabs :
          Listed(AddedItem(t)) >= Cardinality({u \in Tabs : AddedItem(u) = AddedItem(t)})
====
